---- MODULE Spec2Model ----
(***************************************************************************)
(* Model of the recommendation engine of the tasting-log application       *)
(* (MyFirstApp/services/recommendationService.ts).                         *)
(*                                                                         *)
(* Numbers: the engine computes with JavaScript doubles; the model         *)
(* computes the same expressions exactly, as rationals [n, d] in lowest    *)
(* terms.  Strings: an absent optional attribute (undefined / null) and    *)
(* the empty string are both falsy in the code's `a && b` tests and are    *)
(* both written "" here; an absent vintage and the vintage 0 are both      *)
(* falsy and are both written 0.  Japanese text of the reason formatter    *)
(* is written in romaji, one token per fragment.                           *)
(***************************************************************************)
EXTENDS Integers, Sequences, FiniteSets, TLC

VARIABLES
    pc,                     \* position of the generateRecommendations call
    settled,                \* how the returned promise settled
    wineFetch, sakeFetch,   \* state of the two findAll() promises
    wines, sakes,           \* the snapshots the fetches resolved to
    userPreferences,        \* << >> or << the profile analyzeUserPreferences built >>
    candidates,             \* the local array `recommendations` before the sort
    result,                 \* the list the call resolved to
    recommendationCounter,  \* RecommendationService.recommendationCounter
    now,                    \* Date.now()
    issuedIds,              \* every id generateUniqueId has returned, in order
    calls,                  \* number of generateRecommendations calls started
    simType, simLeft, simRight, \* arguments of a pairwise similarity computation
    simForward, simBackward,    \* its result for (left, right) and (right, left)
    scoreType, scoreItem,   \* arguments of a preference score computation:
    scorePrefs,             \*   the category, the candidate and the profile
    scoreValue,             \* << >> or << the score returned >>
    retryOptions,           \* options of an executeWithRetry call: maxAttempts,
                            \*   retryCondition, whether onRetry is provided
    retryPc,                \* its position: "idle", "loop", "awaiting", "delaying",
                            \*   "returned", "thrown"
    retryAttempt,           \* the loop variable `attempt`
    invocations,            \* number of times operation() has been invoked
    onRetryCalls,           \* number of times onRetry has been called
    retryErrors,            \* the errors the attempts have thrown, in order
    retryOutcome,           \* << >>, << [value] returned >> or << the error thrown >>
    state,                  \* the reducer state of the records context
    storeWines, storeSakes, \* the database tables, newest row first
    nextId,                 \* number of ids databaseService.generateId has drawn
    op,                     \* the context operation in flight: [kind, table, id, data]
    opPc,                   \* its position: "idle", "service", "loading", "refreshing"
    attempt,                \* attempt number of executeWithRetry
    opOutcome,              \* how the promise of the last operation settled
    opError,                \* << >> or << the error it rejected with >>
    listBefore,             \* the context's list of the operation's table at its start
    tableBefore,            \* the rows of the operation's table at its start
    lastAttempt,            \* the last service call of the operation: its result, the table before it
    ops,                    \* number of context operations started
    tasks                   \* the context operations in flight at the same time, each
                            \*   [kind, table, id, data, pc, winesRead, sakesRead]

vars == << pc, settled, wineFetch, sakeFetch, wines, sakes, userPreferences,
           candidates, result,
           recommendationCounter, now, issuedIds, calls,
           simType, simLeft, simRight, simForward, simBackward,
           scoreType, scoreItem, scorePrefs, scoreValue,
           retryOptions, retryPc, retryAttempt, invocations, onRetryCalls,
           retryErrors, retryOutcome,
           state, storeWines, storeSakes, nextId, op, opPc, attempt, opOutcome,
           opError, listBefore, tableBefore, lastAttempt, ops, tasks >>

genVars == << pc, settled, wineFetch, sakeFetch, wines, sakes, userPreferences,
           candidates, result,
              recommendationCounter, now, issuedIds, calls >>

simVars == << simType, simLeft, simRight, simForward, simBackward >>

scoreVars == << scoreType, scoreItem, scorePrefs, scoreValue >>

retryVars == << retryOptions, retryPc, retryAttempt, invocations, onRetryCalls,
                retryErrors, retryOutcome >>

overlapVars == << tasks >>

\* the variables the generator and the one-at-a-time context leave alone
pureVars == << simVars, scoreVars, retryVars, overlapVars >>

ctxVars == << state, storeWines, storeSakes, nextId, op, opPc, attempt, opOutcome,
              opError, listBefore, tableBefore, lastAttempt, ops >>

(***************************************************************************)
(* Exact rational arithmetic                                               *)
(***************************************************************************)
RECURSIVE GCD(_, _)
GCD(a, b) == IF b = 0 THEN a ELSE GCD(b, a % b)

Abs(x) == IF x < 0 THEN -x ELSE x

Rat(n, d) ==
    LET g == GCD(Abs(n), d)
    IN  [n |-> n \div g, d |-> d \div g]

Zero == Rat(0, 1)
One == Rat(1, 1)
RatOfInt(i) == Rat(i, 1)
RatAdd(p, q) == Rat(p.n * q.d + q.n * p.d, p.d * q.d)
RatSub(p, q) == Rat(p.n * q.d - q.n * p.d, p.d * q.d)
RatMul(p, q) == Rat(p.n * q.n, p.d * q.d)
\* q > 0 at every use
RatDiv(p, q) == Rat(p.n * q.d, p.d * q.n)
RatLt(p, q) == p.n * q.d < q.n * p.d
RatLe(p, q) == p.n * q.d <= q.n * p.d
RatGt(p, q) == RatLt(q, p)
RatMax(p, q) == IF RatLt(p, q) THEN q ELSE p
\* Math.round: the nearest integer, halves upward (argument >= 0 at every use)
RatRound(p) == (2 * p.n + p.d) \div (2 * p.d)

Min(a, b) == IF a < b THEN a ELSE b

(***************************************************************************)
(* Configuration                                                           *)
(***************************************************************************)
MIN_RECORDS_FOR_RECOMMENDATIONS == 3
MAX_RECOMMENDATIONS == 5
HIGH_RATING_THRESHOLD == 4
SIMILARITY_THRESHOLD == Rat(3, 10)

\* mutant: the wine weights of region and vintage are exchanged
SIMILARITY_WEIGHTS_RegionVintageSwapped ==
    [wine |-> [region |-> Rat(2, 10), grape |-> Rat(4, 10), vintage |-> Rat(4, 10)],
     sake |-> [brewery |-> Rat(3, 10), type |-> Rat(4, 10), region |-> Rat(3, 10)]]

SIMILARITY_WEIGHTS ==
    [wine |-> [region |-> Rat(4, 10), grape |-> Rat(4, 10), vintage |-> Rat(2, 10)],
     sake |-> [brewery |-> Rat(3, 10), type |-> Rat(4, 10), region |-> Rat(3, 10)]]

(***************************************************************************)
(* JavaScript primitives                                                   *)
(***************************************************************************)
\* truthiness of an optional string / an optional number
TruthyStr(s) == s # ""
TruthyNum(v) == v # 0

\* String.prototype.toLowerCase on the strings of the model
ToLowerCase(s) ==
    CASE s = "France"  -> "france"
      [] s = "Italy"   -> "italy"
      [] s = "Merlot"  -> "merlot"
      [] s = "Pinot"   -> "pinot"
      [] s = "Syrah"   -> "syrah"
      [] s = "Asahi"   -> "asahi"
      [] s = "Hakkai"  -> "hakkai"
      [] s = "Niigata" -> "niigata"
      [] s = "Junmai"  -> "junmai"
      [] s = "Ginjo"   -> "ginjo"
      [] OTHER         -> s

\* arr.slice(0, k)
Slice(s, k) == SubSeq(s, 1, Min(k, Len(s)))

RECURSIVE SumSeq(_)
SumSeq(s) == IF s = << >> THEN 0 ELSE Head(s) + SumSeq(Tail(s))

RECURSIVE RatSumSeq(_)
RatSumSeq(s) == IF s = << >> THEN Zero ELSE RatAdd(Head(s), RatSumSeq(Tail(s)))

(***************************************************************************)
(* Similarity Calculator                                                   *)
(***************************************************************************)
\* mutant: only the left operand is lower-cased
ExactDimension_LowerLeftOnly(a, b, weight, lower) ==
    IF TruthyStr(a) /\ TruthyStr(b)
    THEN LET same == IF lower THEN ToLowerCase(a) = b ELSE a = b
         IN  [score |-> IF same THEN weight ELSE Zero, weight |-> weight]
    ELSE [score |-> Zero, weight |-> Zero]

\* mutant: the values are compared as they are, without lower-casing
ExactDimension_NoLowerCase(a, b, weight, lower) ==
    IF TruthyStr(a) /\ TruthyStr(b)
    THEN [score |-> IF a = b THEN weight ELSE Zero, weight |-> weight]
    ELSE [score |-> Zero, weight |-> Zero]

\* one exact-match dimension: [score, weight] contributed to the two sums
ExactDimension(a, b, weight, lower) ==
    IF TruthyStr(a) /\ TruthyStr(b)
    THEN LET same == IF lower THEN ToLowerCase(a) = ToLowerCase(b) ELSE a = b
         IN  [score |-> IF same THEN weight ELSE Zero, weight |-> weight]
    ELSE [score |-> Zero, weight |-> Zero]

\* mutant: the difference is not clamped at 0
vintageSimilarity_NoClamp(v1, v2) ==
    RatSub(One, Rat(Abs(v1 - v2), 10))

vintageSimilarity(v1, v2) ==
    RatMax(Zero, RatSub(One, Rat(Abs(v1 - v2), 10)))

VintageDimension(v1, v2, weight) ==
    IF TruthyNum(v1) /\ TruthyNum(v2)
    THEN [score |-> RatMul(vintageSimilarity(v1, v2), weight), weight |-> weight]
    ELSE [score |-> Zero, weight |-> Zero]

\* mutant: the weighted sum is returned without dividing by the weights of
\* the compared dimensions
Normalize_NoDivision(dims) ==
    RatSumSeq([i \in 1..Len(dims) |-> dims[i].score])

Normalize(dims) ==
    LET similarity == RatSumSeq([i \in 1..Len(dims) |-> dims[i].score])
        totalWeight == RatSumSeq([i \in 1..Len(dims) |-> dims[i].weight])
    IN  IF RatGt(totalWeight, Zero) THEN RatDiv(similarity, totalWeight) ELSE Zero

calculateWineSimilarity(wine1, wine2) ==
    Normalize(<< ExactDimension(wine1.region, wine2.region,
                                SIMILARITY_WEIGHTS.wine.region, TRUE),
                 ExactDimension(wine1.grape, wine2.grape,
                                SIMILARITY_WEIGHTS.wine.grape, TRUE),
                 VintageDimension(wine1.vintage, wine2.vintage,
                                  SIMILARITY_WEIGHTS.wine.vintage) >>)

calculateSakeSimilarity(sake1, sake2) ==
    Normalize(<< ExactDimension(sake1.brewery, sake2.brewery,
                                SIMILARITY_WEIGHTS.sake.brewery, TRUE),
                 ExactDimension(sake1.type, sake2.type,
                                SIMILARITY_WEIGHTS.sake.type, FALSE),
                 ExactDimension(sake1.region, sake2.region,
                                SIMILARITY_WEIGHTS.sake.region, TRUE) >>)

(***************************************************************************)
(* Preference Profile Builder                                              *)
(***************************************************************************)
\* mutant: the threshold itself does not count as high
HighRated_Strict(items) == SelectSeq(items, LAMBDA x : x.rating > HIGH_RATING_THRESHOLD)

\* items.filter(x => x.rating >= HIGH_RATING_THRESHOLD)
HighRated(items) == SelectSeq(items, LAMBDA x : x.rating >= HIGH_RATING_THRESHOLD)

\* the forEach loops: for each truthy value of attribute attr among the
\* high-rated items, the sum of the ratings of the items carrying it
AccumulateWeights(highRated, attr) ==
    LET carriers(v) == SelectSeq(highRated, LAMBDA x : x[attr] = v)
        values == {highRated[i][attr] : i \in 1..Len(highRated)} \ {""}
    IN  [v \in values |->
            SumSeq([i \in 1..Len(carriers(v)) |-> carriers(v)[i].rating])]

\* [...].sort((a, b) => a - b)
RECURSIVE SortAscending(_)
SortAscending(s) ==
    IF s = << >> THEN << >>
    ELSE LET m == CHOOSE i \in 1..Len(s) : \A j \in 1..Len(s) : s[i] <= s[j]
             rest == [j \in 1..(Len(s) - 1) |-> IF j < m THEN s[j] ELSE s[j + 1]]
         IN  << s[m] >> \o SortAscending(rest)

\* null is << >>, {min, max} is << min, max >>
PreferredVintageRange(highRatedWines) ==
    LET withVintage == SelectSeq(highRatedWines, LAMBDA w : TruthyNum(w.vintage))
        vintages == SortAscending([i \in 1..Len(withVintage) |-> withVintage[i].vintage])
    IN  IF Len(vintages) > 0 THEN << vintages[1], vintages[Len(vintages)] >> ELSE << >>

\* mutant: the average is taken over the high-rated items
AverageRating_HighRatedOnly(items) ==
    IF HighRated(items) = << >> THEN Zero
    ELSE Rat(SumSeq([i \in 1..Len(HighRated(items)) |-> HighRated(items)[i].rating]),
             Len(HighRated(items)))

AverageRating(items) ==
    Rat(SumSeq([i \in 1..Len(items) |-> items[i].rating]), Len(items))

analyzeUserPreferences(ws, ss) ==
    [wine |->
        IF Len(ws) > 0
        THEN [preferredRegions |-> AccumulateWeights(HighRated(ws), "region"),
              preferredGrapes |-> AccumulateWeights(HighRated(ws), "grape"),
              preferredVintageRange |-> PreferredVintageRange(HighRated(ws)),
              averageRating |-> AverageRating(ws)]
        ELSE [preferredRegions |-> << >>, preferredGrapes |-> << >>,
              preferredVintageRange |-> << >>, averageRating |-> Zero],
     sake |->
        IF Len(ss) > 0
        THEN [preferredBreweries |-> AccumulateWeights(HighRated(ss), "brewery"),
              preferredTypes |-> AccumulateWeights(HighRated(ss), "type"),
              preferredRegions |-> AccumulateWeights(HighRated(ss), "region"),
              averageRating |-> AverageRating(ss)]
        ELSE [preferredBreweries |-> << >>, preferredTypes |-> << >>,
              preferredRegions |-> << >>, averageRating |-> Zero]]

(***************************************************************************)
(* Preference Scorer                                                       *)
(***************************************************************************)
\* `value && map[value]`: the value is truthy and is a key with a truthy weight
Preferred(map, value) ==
    TruthyStr(value) /\ value \in DOMAIN map /\ map[value] # 0

\* `map[value] * weight` when the test above holds, else nothing
PreferenceTerm(map, value, weight) ==
    IF Preferred(map, value) THEN RatMul(RatOfInt(map[value]), weight) ELSE Zero

\* mutant: the bounds of the range are excluded
InPreferredVintageRange_Exclusive(vintage, range) ==
    TruthyNum(vintage) /\ range # << >> /\ vintage > range[1] /\ vintage < range[2]

\* `vintage && range` and min <= vintage <= max
InPreferredVintageRange(vintage, range) ==
    TruthyNum(vintage) /\ range # << >> /\ vintage >= range[1] /\ vintage <= range[2]

scoreWineByPreferences(wine, prefs) ==
    RatSumSeq(<< PreferenceTerm(prefs.preferredRegions, wine.region, Rat(4, 10)),
                 PreferenceTerm(prefs.preferredGrapes, wine.grape, Rat(4, 10)),
                 IF InPreferredVintageRange(wine.vintage, prefs.preferredVintageRange)
                 THEN RatMul(prefs.averageRating, Rat(2, 10)) ELSE Zero >>)

scoreSakeByPreferences(sake, prefs) ==
    RatSumSeq(<< PreferenceTerm(prefs.preferredBreweries, sake.brewery, Rat(3, 10)),
                 PreferenceTerm(prefs.preferredTypes, sake.type, Rat(4, 10)),
                 PreferenceTerm(prefs.preferredRegions, sake.region, Rat(3, 10)) >>)

(***************************************************************************)
(* Reason Formatter.  A reason is the sequence of its text fragments:      *)
(*   "konomi no sanchi"  (preferred region),                               *)
(*   "konomi no hinshu", "konomi no vintage han'i", "konomi no kuramoto",  *)
(*   "konomi no shurui"  (preferred grape, vintage range, brewery, type)   *)
(*   "ruijido"           (similarity), "ni motozuku" (based on),           *)
(*   "atarashii hakken no tame no" (for a new discovery),                  *)
(*   "suisen"            (recommendation).                                 *)
(***************************************************************************)
\* reasons.join(sep)
RECURSIVE Join(_, _)
Join(fragments, sep) ==
    IF fragments = << >> THEN << >>
    ELSE IF Len(fragments) = 1 THEN Head(fragments)
    ELSE Head(fragments) \o << sep >> \o Join(Tail(fragments), sep)

WineReasons(wine, winePrefs) ==
    (IF Preferred(winePrefs.preferredRegions, wine.region)
     THEN << << "konomi no sanchi", wine.region >> >> ELSE << >>)
    \o (IF Preferred(winePrefs.preferredGrapes, wine.grape)
        THEN << << "konomi no hinshu", wine.grape >> >> ELSE << >>)
    \o (IF InPreferredVintageRange(wine.vintage, winePrefs.preferredVintageRange)
        THEN << << "konomi no vintage han'i",
                   ToString(winePrefs.preferredVintageRange[1]), "-",
                   ToString(winePrefs.preferredVintageRange[2]), "nen" >> >>
        ELSE << >>)

SakeReasons(sake, sakePrefs) ==
    (IF Preferred(sakePrefs.preferredBreweries, sake.brewery)
     THEN << << "konomi no kuramoto", sake.brewery >> >> ELSE << >>)
    \o (IF Preferred(sakePrefs.preferredTypes, sake.type)
        THEN << << "konomi no shurui", sake.type >> >> ELSE << >>)
    \o (IF Preferred(sakePrefs.preferredRegions, sake.region)
        THEN << << "konomi no sanchi", sake.region >> >> ELSE << >>)

\* similarity is << >> when the argument is omitted, << s >> otherwise
SimilarityReason(similarity) ==
    IF similarity # << >> /\ similarity[1] # Zero
       /\ RatGt(similarity[1], SIMILARITY_THRESHOLD)
    THEN << << "ruijido", ToString(RatRound(RatMul(similarity[1], RatOfInt(100)))), "%" >> >>
    ELSE << >>

\* mutant: the closing phrase is not appended
FormatReasons_NoClosing(reasons) ==
    IF Len(reasons) > 0
    THEN Join(reasons, ",")
    ELSE << "atarashii hakken no tame no", "suisen" >>

FormatReasons(reasons) ==
    IF Len(reasons) > 0
    THEN Join(reasons, ",") \o << "ni motozuku", "suisen" >>
    ELSE << "atarashii hakken no tame no", "suisen" >>

\* mutant: the similarity fragment is never appended
generateRecommendationReason_NoSimilarity(item, type, preferences, similarity) ==
    FormatReasons(IF type = "wine" THEN WineReasons(item, preferences.wine)
                                   ELSE SakeReasons(item, preferences.sake))

generateRecommendationReason(item, type, preferences, similarity) ==
    FormatReasons(
        (IF type = "wine" THEN WineReasons(item, preferences.wine)
                          ELSE SakeReasons(item, preferences.sake))
        \o SimilarityReason(similarity))

(***************************************************************************)
(* Recommendation Generator                                                *)
(*                                                                         *)
(* A recommendation is [id, type, name, reason, similarity, suggestedItem] *)
(* as in the code, where name is the suffix the code appends to the item's *)
(* name, plus one field the code does not store: seed, the id of the       *)
(* high-rated item the recommendation was derived from ("" for a           *)
(* preference-based one).  The generators below produce the entries        *)
(* without their ids, with the prefix handed to generateUniqueId;          *)
(* AssignIds then draws the ids in the order of the push() calls.          *)
(***************************************************************************)
Includes(s, x) == \E i \in 1..Len(s) : s[i] = x

RECURSIVE Flatten(_)
Flatten(ss) == IF ss = << >> THEN << >> ELSE Head(ss) \o Flatten(Tail(ss))

\* this.calculateWineSimilarity / this.calculateSakeSimilarity
Similarity(type, a, b) ==
    IF type = "wine" THEN calculateWineSimilarity(a, b)
                     ELSE calculateSakeSimilarity(a, b)

\* this.scoreWineByPreferences(x, preferences.wine) / the same for sake
ScoreByPreferences(type, x, preferences) ==
    IF type = "wine" THEN scoreWineByPreferences(x, preferences.wine)
                     ELSE scoreSakeByPreferences(x, preferences.sake)

\* mutant: the seed is not excluded
IsOther_NoCheck(seed, x) == TRUE

\* `w.id !== wine.id`
IsOther(seed, x) == x.id # seed.id

\* mutant: the entry is labelled with the other category
SimilarEntry_OtherType(seed, x, type, preferences) ==
    [prefix |-> type \o "_rec_" \o x.id,
     type |-> IF type = "wine" THEN "sake" ELSE "wine",
     name |-> "(ruiji suisen)",
     reason |-> generateRecommendationReason(
                    x, type, preferences, << Similarity(type, seed, x) >>),
     similarity |-> RatAdd(Similarity(type, seed, x),
                           RatDiv(ScoreByPreferences(type, x, preferences), RatOfInt(10))),
     suggestedItem |-> x,
     seed |-> seed.id]

\* the object pushed for a similar item
SimilarEntry(seed, x, type, preferences) ==
    [prefix |-> type \o "_rec_" \o x.id,
     type |-> type,
     name |-> "(ruiji suisen)",
     reason |-> generateRecommendationReason(
                    x, type, preferences, << Similarity(type, seed, x) >>),
     similarity |-> RatAdd(Similarity(type, seed, x),
                           RatDiv(ScoreByPreferences(type, x, preferences), RatOfInt(10))),
     suggestedItem |-> x,
     seed |-> seed.id]

\* mutant: the items with a zero score are dropped before the first two are
\* taken, so a later match takes the place of a dropped one
SimilarTo_FilterBeforeSlice(seed, items, type, preferences) ==
    LET similarItems == SelectSeq(items, LAMBDA x :
                            IsOther(seed, x)
                            /\ RatGt(Similarity(type, seed, x), SIMILARITY_THRESHOLD)
                            /\ RatGt(ScoreByPreferences(type, x, preferences), Zero))
        considered == Slice(similarItems, 2)
    IN  [i \in 1..Len(considered) |->
            SimilarEntry(seed, considered[i], type, preferences)]

\* mutant: a considered item is emitted whatever its score
SimilarTo_NoScoreTest(seed, items, type, preferences) ==
    LET similarItems == SelectSeq(items, LAMBDA x :
                            IsOther(seed, x)
                            /\ RatGt(Similarity(type, seed, x), SIMILARITY_THRESHOLD))
        considered == Slice(similarItems, 2)
    IN  [i \in 1..Len(considered) |->
            SimilarEntry(seed, considered[i], type, preferences)]

\* the inner loop of the similarity-based part, for one seed
SimilarTo(seed, items, type, preferences) ==
    LET similarItems == SelectSeq(items, LAMBDA x :
                            IsOther(seed, x)
                            /\ RatGt(Similarity(type, seed, x), SIMILARITY_THRESHOLD))
        considered == Slice(similarItems, 2)
    IN  Flatten([i \in 1..Len(considered) |->
                    IF RatGt(ScoreByPreferences(type, considered[i], preferences), Zero)
                    THEN << SimilarEntry(seed, considered[i], type, preferences) >>
                    ELSE << >>])

\* the similarity-based part: the first three high-rated items are the seeds
SimilarityBased(items, type, preferences) ==
    LET seeds == Slice(HighRated(items), 3)
    IN  Flatten([i \in 1..Len(seeds) |-> SimilarTo(seeds[i], items, type, preferences)])

\* mutant: the score is divided by 10 as in the similarity-based part
PreferredEntry_ScoreOverTen(x, type, preferences) ==
    [prefix |-> type \o "_pref_" \o x.id,
     type |-> type,
     name |-> "(konomi suisen)",
     reason |-> generateRecommendationReason(x, type, preferences, << >>),
     similarity |-> RatDiv(ScoreByPreferences(type, x, preferences), RatOfInt(10)),
     suggestedItem |-> x,
     seed |-> ""]

\* the object pushed for a preferred item
PreferredEntry(x, type, preferences) ==
    [prefix |-> type \o "_pref_" \o x.id,
     type |-> type,
     name |-> "(konomi suisen)",
     reason |-> generateRecommendationReason(x, type, preferences, << >>),
     similarity |-> RatDiv(ScoreByPreferences(type, x, preferences), RatOfInt(5)),
     suggestedItem |-> x,
     seed |-> ""]

\* mutant: the high-rated items are not excluded
PreferenceBased_NoExclusion(items, type, preferences) ==
    LET preferenceBased == SelectSeq(items, LAMBDA x :
                               RatGt(ScoreByPreferences(type, x, preferences),
                                     preferences[type].averageRating))
        chosen == Slice(preferenceBased, 2)
    IN  [i \in 1..Len(chosen) |-> PreferredEntry(chosen[i], type, preferences)]

\* the preference-based part
PreferenceBased(items, type, preferences) ==
    LET preferenceBased == SelectSeq(items, LAMBDA x :
                               RatGt(ScoreByPreferences(type, x, preferences),
                                     preferences[type].averageRating)
                               /\ ~Includes(HighRated(items), x))
        chosen == Slice(preferenceBased, 2)
    IN  [i \in 1..Len(chosen) |-> PreferredEntry(chosen[i], type, preferences)]

generateWineRecommendations(userWines, preferences) ==
    SimilarityBased(userWines, "wine", preferences)
    \o PreferenceBased(userWines, "wine", preferences)

generateSakeRecommendations(userSakes, preferences) ==
    SimilarityBased(userSakes, "sake", preferences)
    \o PreferenceBased(userSakes, "sake", preferences)

\* mutant: the id is built from the prefix and the clock alone
generateUniqueId_NoCounter(prefix, counter, time) ==
    [counter |-> counter + 1,
     id |-> prefix \o "_" \o ToString(time)]

\* generateUniqueId: the counter after the call and the id returned
generateUniqueId(prefix, counter, time) ==
    [counter |-> counter + 1,
     id |-> prefix \o "_" \o ToString(time) \o "_" \o ToString(counter + 1)]

WithId(entry, id) ==
    [id |-> id, type |-> entry.type, name |-> entry.name, reason |-> entry.reason,
     similarity |-> entry.similarity, suggestedItem |-> entry.suggestedItem,
     seed |-> entry.seed]

\* the push() calls in order, the k-th reading the clock as clock[k]: the
\* entries with their ids, and the counter after the last of them
RECURSIVE AssignIds(_, _, _, _)
AssignIds(entries, k, counter, clock) ==
    IF k > Len(entries) THEN [recs |-> << >>, counter |-> counter]
    ELSE LET g == generateUniqueId(entries[k].prefix, counter, clock[k])
             rest == AssignIds(entries, k + 1, g.counter, clock)
         IN  [recs |-> << WithId(entries[k], g.id) >> \o rest.recs,
              counter |-> rest.counter]

\* the array `recommendations` before the sort (lines 313-327), without ids
Entries(ws, ss) ==
    LET preferences == analyzeUserPreferences(ws, ss)
    IN  (IF Len(ws) > 0 THEN generateWineRecommendations(ws, preferences) ELSE << >>)
        \o (IF Len(ss) > 0 THEN generateSakeRecommendations(ss, preferences) ELSE << >>)

\* mutant: the comparator is a.similarity - b.similarity
RECURSIVE InsertAscending(_, _)
InsertAscending(x, sorted) ==
    IF sorted = << >> THEN << x >>
    ELSE IF RatLt(x.similarity, Head(sorted).similarity)
         THEN << x >> \o sorted
         ELSE << Head(sorted) >> \o InsertAscending(x, Tail(sorted))

\* Array.prototype.sort((a, b) => b.similarity - a.similarity): a stable sort,
\* so each element goes behind the elements not smaller than it
RECURSIVE InsertDescending(_, _)
InsertDescending(x, sorted) ==
    IF sorted = << >> THEN << x >>
    ELSE IF RatLt(Head(sorted).similarity, x.similarity)
         THEN << x >> \o sorted
         ELSE << Head(sorted) >> \o InsertDescending(x, Tail(sorted))

\* mutant: a sort that is not stable; candidates of equal similarity come
\* out in the reverse of their generation order
RECURSIVE SortBySimilarity_TiesReversed(_)
SortBySimilarity_TiesReversed(s) ==
    IF s = << >> THEN << >>
    ELSE InsertDescending(s[1], SortBySimilarity_TiesReversed(Tail(s)))

RECURSIVE SortBySimilarity(_)
SortBySimilarity(s) ==
    IF s = << >> THEN << >>
    ELSE InsertDescending(s[Len(s)], SortBySimilarity(SubSeq(s, 1, Len(s) - 1)))

\* mutant: the sorted list is returned whole
RankAndTruncate_NoSlice(recs) == SortBySimilarity(recs)

\* lines 330-332
RankAndTruncate(recs) == Slice(SortBySimilarity(recs), MAX_RECOMMENDATIONS)

\* mutant: the threshold is one record lower
TooFewRecords_OffByOne(ws, ss) ==
    Len(ws) + Len(ss) < MIN_RECORDS_FOR_RECOMMENDATIONS - 1

\* line 309
TooFewRecords(ws, ss) == Len(ws) + Len(ss) < MIN_RECORDS_FOR_RECOMMENDATIONS

\* mutant: the error is rethrown
OnError_Rethrow == [settled |-> "rejected", result |-> << >>]

\* the catch block, lines 334-337
OnError == [settled |-> "resolved", result |-> << >>]

(***************************************************************************)
(* The records a snapshot can hold                                         *)
(***************************************************************************)
MaxRecords == 4

\* a fully described wine at a low, the threshold and the top rating; a wine
\* whose region differs from it in letter case only; a wine with no optional
\* attribute at all
WineCatalog ==
    {[region |-> "France", grape |-> "Merlot", vintage |-> 2018, rating |-> 3],
     [region |-> "France", grape |-> "Merlot", vintage |-> 2018, rating |-> 4],
     [region |-> "France", grape |-> "Merlot", vintage |-> 2018, rating |-> 5],
     [region |-> "france", grape |-> "Pinot", vintage |-> 2020, rating |-> 3],
     [region |-> "france", grape |-> "Pinot", vintage |-> 2020, rating |-> 5],
     [region |-> "", grape |-> "", vintage |-> 0, rating |-> 3],
     [region |-> "", grape |-> "", vintage |-> 0, rating |-> 5]}

SakeCatalog ==
    {[brewery |-> "Asahi", type |-> "Junmai", region |-> "Niigata", rating |-> 5],
     [brewery |-> "", type |-> "Junmai", region |-> "niigata", rating |-> 4],
     [brewery |-> "Asahi", type |-> "", region |-> "Niigata", rating |-> 3]}

\* the store assigns the ids; here the i-th record of a list has id i
WineRecord(i, a) ==
    [id |-> ToString(i), region |-> a.region, grape |-> a.grape,
     vintage |-> a.vintage, rating |-> a.rating]

SakeRecord(i, a) ==
    [id |-> ToString(i), brewery |-> a.brewery, type |-> a.type,
     region |-> a.region, rating |-> a.rating]

\* the list a findAll() resolves to, from the attributes of its records
WineList(f) == [i \in 1..Len(f) |-> WineRecord(i, f[i])]
SakeList(f) == [i \in 1..Len(f) |-> SakeRecord(i, f[i])]

\* the snapshots of the repeated-call specification: the store is empty or
\* holds three wines (two sakes)
ThreeWines ==
    WineList(<< [region |-> "France", grape |-> "Merlot", vintage |-> 2018, rating |-> 5],
                [region |-> "France", grape |-> "Merlot", vintage |-> 2018, rating |-> 4],
                [region |-> "France", grape |-> "Merlot", vintage |-> 2018, rating |-> 3] >>)

TwoSakes ==
    SakeList(<< [brewery |-> "Asahi", type |-> "Junmai", region |-> "Niigata", rating |-> 5],
                [brewery |-> "", type |-> "Junmai", region |-> "niigata", rating |-> 4] >>)

\* the arguments of the pairwise similarity specification
SimWines ==
    [region : {"", "France", "france", "Italy"},
     grape : {"", "Merlot", "merlot", "Pinot"},
     vintage : {0, 2005, 2018, 2020}]

SimSakes ==
    [brewery : {"", "Asahi", "asahi", "Hakkai"},
     type : {"", "Junmai", "junmai", "Ginjo"},
     region : {"", "Niigata", "niigata"}]

\* calls of generateRecommendations in the repeated-call specification
MaxCalls == 2

(***************************************************************************)
(* generateRecommendations as a state machine                              *)
(***************************************************************************)
GenInit ==
    /\ pc = "idle"
    /\ settled = "none"
    /\ wineFetch = "none" /\ sakeFetch = "none"
    /\ wines = << >> /\ sakes = << >>
    /\ userPreferences = << >>
    /\ candidates = << >>
    /\ result = << >>
    /\ recommendationCounter = 0
    /\ now = 0
    /\ issuedIds = << >>
    /\ calls = 0

SimIdle ==
    /\ simType = "none"
    /\ simLeft = << >> /\ simRight = << >>
    /\ simForward = << >> /\ simBackward = << >>

ScoreIdle ==
    /\ scoreType = "none"
    /\ scoreItem = << >> /\ scorePrefs = << >>
    /\ scoreValue = << >>

RetryIdle ==
    /\ retryOptions = << >>
    /\ retryPc = "idle"
    /\ retryAttempt = 0
    /\ invocations = 0 /\ onRetryCalls = 0
    /\ retryErrors = << >> /\ retryOutcome = << >>

OverlapIdle == tasks = << >>

PureIdle == SimIdle /\ ScoreIdle /\ RetryIdle /\ OverlapIdle

\* the records context before its provider is mounted
CtxIdle ==
    /\ state = [wines |-> << >>, sakes |-> << >>, recommendations |-> << >>,
                loading |-> FALSE, error |-> ""]
    /\ storeWines = << >> /\ storeSakes = << >>
    /\ nextId = 0
    /\ op = [kind |-> "none", table |-> "", id |-> "", data |-> << >>]
    /\ opPc = "idle"
    /\ attempt = 0
    /\ opOutcome = "none"
    /\ opError = << >>
    /\ listBefore = << >> /\ tableBefore = << >>
    /\ lastAttempt = << >>
    /\ ops = 0

\* line 301: both findAll() calls are issued before the await
StartGenerate ==
    /\ pc = "idle"
    /\ calls < MaxCalls
    /\ pc' = "fetching"
    /\ settled' = "pending"
    /\ wineFetch' = "pending" /\ sakeFetch' = "pending"
    /\ wines' = << >> /\ sakes' = << >>
    /\ userPreferences' = << >>
    /\ candidates' = << >> /\ result' = << >>
    /\ calls' = calls + 1
    /\ UNCHANGED << recommendationCounter, now, issuedIds >>

\* Promise.all rejects at the first rejection and the catch block runs; the
\* value of the other promise is never destructured
Caught ==
    /\ pc' = "done"
    /\ settled' = OnError.settled
    /\ result' = OnError.result
    /\ wines' = << >> /\ sakes' = << >>

\* a findAll() resolves; Promise.all resolves with the second of them
WineFetchOk(ws) ==
    /\ wineFetch = "pending"
    /\ wineFetch' = "ok"
    /\ IF pc = "fetching"
       THEN /\ wines' = ws
            /\ pc' = IF sakeFetch = "ok" THEN "computing" ELSE pc
       ELSE UNCHANGED << wines, pc >>
    /\ UNCHANGED << settled, sakeFetch, sakes, userPreferences, candidates, result,
                    recommendationCounter, now, issuedIds, calls >>

SakeFetchOk(ss) ==
    /\ sakeFetch = "pending"
    /\ sakeFetch' = "ok"
    /\ IF pc = "fetching"
       THEN /\ sakes' = ss
            /\ pc' = IF wineFetch = "ok" THEN "computing" ELSE pc
       ELSE UNCHANGED << sakes, pc >>
    /\ UNCHANGED << settled, wineFetch, wines, userPreferences, candidates, result,
                    recommendationCounter, now, issuedIds, calls >>

WineFetchFail ==
    /\ wineFetch = "pending"
    /\ wineFetch' = "failed"
    /\ IF pc = "fetching" THEN Caught
                          ELSE UNCHANGED << pc, settled, result, wines, sakes >>
    /\ UNCHANGED << sakeFetch, userPreferences, candidates, recommendationCounter, now,
                    issuedIds, calls >>

SakeFetchFail ==
    /\ sakeFetch = "pending"
    /\ sakeFetch' = "failed"
    /\ IF pc = "fetching" THEN Caught
                          ELSE UNCHANGED << pc, settled, result, wines, sakes >>
    /\ UNCHANGED << wineFetch, userPreferences, candidates, recommendationCounter, now,
                    issuedIds, calls >>

\* lines 306-332: the continuation of the await.  The clock advances by one
\* after the first tickAfter ids have been drawn, and stands still when
\* tickAfter is -1.
Compute(tickAfter) ==
    /\ pc = "computing"
    /\ pc' = "done"
    /\ settled' = "resolved"
    /\ IF TooFewRecords(wines, sakes)
       THEN /\ tickAfter = -1
            /\ userPreferences' = << >>
            /\ candidates' = << >>
            /\ result' = << >>
            /\ UNCHANGED << recommendationCounter, now, issuedIds >>
       ELSE \E entries \in {Entries(wines, sakes)} :
            \E drawn \in {AssignIds(entries, 1, recommendationCounter,
                                    [k \in 1..Len(entries) |->
                                        IF tickAfter >= 0 /\ k > tickAfter
                                        THEN now + 1 ELSE now])} :
                /\ tickAfter < Len(entries)
                /\ userPreferences' = << analyzeUserPreferences(wines, sakes) >>
                /\ candidates' = drawn.recs
                /\ result' = RankAndTruncate(drawn.recs)
                /\ recommendationCounter' = drawn.counter
                /\ now' = IF tickAfter >= 0 THEN now + 1 ELSE now
                /\ issuedIds' = issuedIds \o [k \in 1..Len(entries) |-> drawn.recs[k].id]
    /\ UNCHANGED << wineFetch, sakeFetch, wines, sakes, calls >>

\* the caller takes the result; the service is ready for the next call
Finish ==
    /\ pc = "done"
    /\ pc' = "idle"
    /\ UNCHANGED << settled, wineFetch, sakeFetch, wines, sakes, userPreferences,
                    candidates, result, recommendationCounter, now, issuedIds, calls >>

\* Spec: one call on a fresh service, over every snapshot of at most
\* MaxRecords records, with the clock standing still
Next ==
    \/ StartGenerate /\ UNCHANGED << pureVars, ctxVars >>
    \/ /\ wineFetch = "pending"
       /\ \E n \in 0..(MaxRecords - Len(sakes)) :
            \E f \in [1..n -> WineCatalog] : WineFetchOk(WineList(f))
       /\ UNCHANGED << pureVars, ctxVars >>
    \/ /\ sakeFetch = "pending"
       /\ \E n \in 0..(MaxRecords - Len(wines)) :
            \E f \in [1..n -> SakeCatalog] : SakeFetchOk(SakeList(f))
       /\ UNCHANGED << pureVars, ctxVars >>
    \/ WineFetchFail /\ UNCHANGED << pureVars, ctxVars >>
    \/ SakeFetchFail /\ UNCHANGED << pureVars, ctxVars >>
    \/ Compute(-1) /\ UNCHANGED << pureVars, ctxVars >>

Init == GenInit /\ PureIdle /\ CtxIdle

Spec == Init /\ [][Next]_vars

\* SpecIds: up to MaxCalls calls on the one service instance, the clock
\* advancing at any point of a call
NextIds ==
    \/ StartGenerate /\ UNCHANGED << pureVars, ctxVars >>
    \/ (\E ws \in {<< >>, ThreeWines} : WineFetchOk(ws)) /\ UNCHANGED << pureVars, ctxVars >>
    \/ (\E ss \in {<< >>, TwoSakes} : SakeFetchOk(ss)) /\ UNCHANGED << pureVars, ctxVars >>
    \/ WineFetchFail /\ UNCHANGED << pureVars, ctxVars >>
    \/ SakeFetchFail /\ UNCHANGED << pureVars, ctxVars >>
    \/ /\ pc = "computing"
       /\ \E tickAfter \in -1..(2 * MAX_RECOMMENDATIONS) : Compute(tickAfter)
       /\ UNCHANGED << pureVars, ctxVars >>
    \/ Finish /\ UNCHANGED << pureVars, ctxVars >>

SpecIds == Init /\ [][NextIds]_vars

\* SpecRegion: one call over every snapshot of three wines and no sakes drawn
\* from wines of two regions that differ in grape and lie more than ten
\* years apart, a wine without grape and vintage, a low-rated wine and a wine
\* without region
RegionWine(region, grape, vintage, rating) ==
    [region |-> region, grape |-> grape, vintage |-> vintage, rating |-> rating]

RegionWines ==
    {RegionWine("France", "Merlot", 1990, 4), RegionWine("France", "Pinot", 2005, 5),
     RegionWine("France", "Syrah", 2020, 4), RegionWine("France", "Merlot", 2020, 5),
     RegionWine("France", "", 0, 4), RegionWine("Italy", "Merlot", 1990, 5),
     RegionWine("Italy", "Pinot", 2005, 4), RegionWine("Italy", "Syrah", 2020, 5),
     RegionWine("France", "Pinot", 1990, 3), RegionWine("", "Syrah", 2005, 5)}

NextRegion ==
    \/ StartGenerate /\ UNCHANGED << pureVars, ctxVars >>
    \/ (\E f \in [1..3 -> RegionWines] : WineFetchOk(WineList(f)))
          /\ UNCHANGED << pureVars, ctxVars >>
    \/ SakeFetchOk(<< >>) /\ UNCHANGED << pureVars, ctxVars >>
    \/ Compute(-1) /\ UNCHANGED << pureVars, ctxVars >>

SpecRegion == Init /\ [][NextRegion]_vars

(***************************************************************************)
(* The pairwise similarity as a state machine: both orders of one pair     *)
(***************************************************************************)
SimInit ==
    /\ simType \in {"wine", "sake"}
    /\ simLeft \in (IF simType = "wine" THEN SimWines ELSE SimSakes)
    /\ simRight \in (IF simType = "wine" THEN SimWines ELSE SimSakes)
    /\ simForward = << >> /\ simBackward = << >>

CalculateForward ==
    /\ simForward = << >>
    /\ simForward' = << Similarity(simType, simLeft, simRight) >>
    /\ UNCHANGED << simType, simLeft, simRight, simBackward >>

CalculateBackward ==
    /\ simBackward = << >>
    /\ simBackward' = << Similarity(simType, simRight, simLeft) >>
    /\ UNCHANGED << simType, simLeft, simRight, simForward >>

NextSim ==
    \/ CalculateForward /\ UNCHANGED << genVars, scoreVars, retryVars, overlapVars, ctxVars >>
    \/ CalculateBackward /\ UNCHANGED << genVars, scoreVars, retryVars, overlapVars, ctxVars >>

InitSim == GenInit /\ SimInit /\ ScoreIdle /\ RetryIdle /\ OverlapIdle /\ CtxIdle

SpecSim == InitSim /\ [][NextSim]_vars

(***************************************************************************)
(* The preference score as a state machine: one candidate scored against   *)
(* the profile analyzeUserPreferences builds from a snapshot               *)
(***************************************************************************)
ScoreInit ==
    /\ scoreType \in {"wine", "sake"}
    /\ \E n \in 0..MaxRecords :
          IF scoreType = "wine"
          THEN \E f \in [1..n -> WineCatalog] :
                  scorePrefs = analyzeUserPreferences(WineList(f), << >>)
          ELSE \E f \in [1..n -> SakeCatalog] :
                  scorePrefs = analyzeUserPreferences(<< >>, SakeList(f))
    /\ scoreItem \in (IF scoreType = "wine" THEN WineCatalog ELSE SakeCatalog)
    /\ scoreValue = << >>

CalculateScore ==
    /\ scoreValue = << >>
    /\ scoreValue' = << ScoreByPreferences(scoreType, scoreItem, scorePrefs) >>
    /\ UNCHANGED << scoreType, scoreItem, scorePrefs >>

NextScore == CalculateScore /\ UNCHANGED << genVars, simVars, retryVars, overlapVars, ctxVars >>

InitScore == GenInit /\ SimIdle /\ ScoreInit /\ RetryIdle /\ OverlapIdle /\ CtxIdle

SpecScore == InitScore /\ [][NextScore]_vars

(***************************************************************************)
(* Input validation (types/common.ts, types/wine.ts, types/sake.ts).       *)
(* An optional input field is << >> when undefined and << v >> when given. *)
(* A validation returns the sequence of its error messages, << >> when the *)
(* value passes.                                                           *)
(***************************************************************************)
IsDefined(o) == o # << >>

\* String.prototype.length on the strings of the inputs; "x101" and "x51"
\* stand for strings of 101 and of 51 characters
Length(s) ==
    CASE s = "x101" -> 101
      [] s = "x51"  -> 51
      [] s = ""     -> 0
      [] OTHER      -> 7

\* new Date().getFullYear()
CurrentYear == 2026

\* the sake types the form offers; "Junmai" and "Ginjo" stand for two of them
SAKE_TYPES == {"Junmai", "Ginjo", "sonota"}

isRequired(o, fieldName) ==
    IF ~IsDefined(o) \/ o[1] = "" THEN << fieldName \o " wa hissu desu" >> ELSE << >>

isValidRating(o) ==
    IF ~IsDefined(o) \/ o[1] < 1 \/ o[1] > 5
    THEN << "hyouka wa 1-5 no han'i de" >> ELSE << >>

isValidYear(o) ==
    IF IsDefined(o) /\ (o[1] < 1800 \/ o[1] > CurrentYear + 1)
    THEN << "nen no han'i de" >> ELSE << >>

isValidString(o, fieldName, maxLength) ==
    IF IsDefined(o) /\ Length(o[1]) > maxLength
    THEN << fieldName \o " wa moji inai de" >> ELSE << >>

isValidSakeType(o) ==
    IF IsDefined(o) /\ o[1] # "" /\ o[1] \notin SAKE_TYPES
    THEN << "mukou na shurui" >> ELSE << >>

\* validateAll: every validation runs; the messages of the failed ones are
\* joined into one ValidationError
validateAll(validations) == Flatten(validations)

WineValidateCreate(data) ==
    validateAll(<< isRequired(data.name, "name"),
                   isValidRating(data.rating),
                   isValidString(data.name, "name", 100),
                   isValidString(data.region, "region", 100),
                   isValidString(data.grape, "grape", 100),
                   isValidYear(data.vintage) >>)

\* a field that is undefined contributes no validation
WineValidateUpdate(data) ==
    validateAll(<< IF IsDefined(data.name)
                   THEN isRequired(data.name, "name")
                        \o isValidString(data.name, "name", 100)
                   ELSE << >>,
                   IF IsDefined(data.rating) THEN isValidRating(data.rating) ELSE << >>,
                   isValidString(data.region, "region", 100),
                   isValidString(data.grape, "grape", 100),
                   isValidYear(data.vintage) >>)

SakeValidateCreate(data) ==
    validateAll(<< isRequired(data.name, "name"),
                   isValidRating(data.rating),
                   isValidString(data.name, "name", 100),
                   isValidString(data.brewery, "brewery", 100),
                   isValidString(data.type, "type", 50),
                   isValidString(data.region, "region", 100),
                   isValidSakeType(data.type) >>)

SakeValidateUpdate(data) ==
    validateAll(<< IF IsDefined(data.name)
                   THEN isRequired(data.name, "name")
                        \o isValidString(data.name, "name", 100)
                   ELSE << >>,
                   IF IsDefined(data.rating) THEN isValidRating(data.rating) ELSE << >>,
                   isValidString(data.brewery, "brewery", 100),
                   isValidString(data.type, "type", 50),
                   isValidSakeType(data.type),
                   isValidString(data.region, "region", 100) >>)

validateCreate(table, data) ==
    IF table = "wine" THEN WineValidateCreate(data) ELSE SakeValidateCreate(data)

validateUpdate(table, data) ==
    IF table = "wine" THEN WineValidateUpdate(data) ELSE SakeValidateUpdate(data)

(***************************************************************************)
(* The database tables and the record services (services/database.ts,      *)
(* services/wineService.ts, services/sakeService.ts).  A table is the      *)
(* sequence of its rows, newest first, as findAll('created_at DESC')       *)
(* returns them.  An error is [name, message]; a service call returns      *)
(* [rows, writes, error, value]: the table after the call, the number of   *)
(* database create / update / delete calls it made, << >> or << error >>,  *)
(* and << >> or << the record returned >>.  The fault names the database   *)
(* call of the attempt that fails: "none", "read" (the existence check),   *)
(* "write" (the statement is not applied) or "readback" (the read after a  *)
(* write that was applied).                                                *)
(***************************************************************************)
\* the message of a ValidationError is the sequence of the messages joined
ValidationError(messages) == [name |-> "ValidationError", message |-> messages]
DatabaseError(message) == [name |-> "DatabaseError", message |-> << message >>]

\* `value || null`
OrNullStr(o) == IF IsDefined(o) THEN o[1] ELSE ""
OrNullNum(o) == IF IsDefined(o) THEN o[1] ELSE 0

\* the row the create statement inserts, as mapRowToWine / mapRowToSake read it
NewRow(table, id, data) ==
    IF table = "wine"
    THEN [id |-> id, name |-> data.name[1], region |-> OrNullStr(data.region),
          grape |-> OrNullStr(data.grape), vintage |-> OrNullNum(data.vintage),
          rating |-> data.rating[1]]
    ELSE [id |-> id, name |-> data.name[1], brewery |-> OrNullStr(data.brewery),
          type |-> OrNullStr(data.type), region |-> OrNullStr(data.region),
          rating |-> data.rating[1]]

\* the row after an update statement that sets the fields the input defines
UpdatedRow(table, row, data) ==
    IF table = "wine"
    THEN [id |-> row.id,
          name |-> IF IsDefined(data.name) THEN data.name[1] ELSE row.name,
          region |-> IF IsDefined(data.region) THEN data.region[1] ELSE row.region,
          grape |-> IF IsDefined(data.grape) THEN data.grape[1] ELSE row.grape,
          vintage |-> IF IsDefined(data.vintage) THEN data.vintage[1] ELSE row.vintage,
          rating |-> IF IsDefined(data.rating) THEN data.rating[1] ELSE row.rating]
    ELSE [id |-> row.id,
          name |-> IF IsDefined(data.name) THEN data.name[1] ELSE row.name,
          brewery |-> IF IsDefined(data.brewery) THEN data.brewery[1] ELSE row.brewery,
          type |-> IF IsDefined(data.type) THEN data.type[1] ELSE row.type,
          region |-> IF IsDefined(data.region) THEN data.region[1] ELSE row.region,
          rating |-> IF IsDefined(data.rating) THEN data.rating[1] ELSE row.rating]

\* databaseService.findById: << >> for null
dbFindById(rows, id) == SelectSeq(rows, LAMBDA r : r.id = id)

dbCreate(rows, row) == << row >> \o rows

dbUpdate(table, rows, id, data) ==
    [i \in 1..Len(rows) |->
        IF rows[i].id = id THEN UpdatedRow(table, rows[i], data) ELSE rows[i]]

dbDelete(rows, id) == SelectSeq(rows, LAMBDA r : r.id # id)

ServiceResult(rows, writes, error, value) ==
    [rows |-> rows, writes |-> writes, error |-> error, value |-> value]

\* mutant: the row is inserted before the input is validated
ServiceCreate_InsertFirst(table, data, rows, id, fault) ==
    IF validateCreate(table, data) # << >>
    THEN ServiceResult(dbCreate(rows, [id |-> id, name |-> "", rating |-> 0]), 1,
                       << ValidationError(validateCreate(table, data)) >>, << >>)
    ELSE IF fault = "write"
    THEN ServiceResult(rows, 1, << DatabaseError("Failed to create record") >>, << >>)
    ELSE IF fault = "readback"
    THEN ServiceResult(dbCreate(rows, NewRow(table, id, data)), 1,
                       << DatabaseError("Failed to find record") >>, << >>)
    ELSE ServiceResult(dbCreate(rows, NewRow(table, id, data)), 1, << >>,
                       dbFindById(dbCreate(rows, NewRow(table, id, data)), id))

\* wineService.create / sakeService.create
ServiceCreate(table, data, rows, id, fault) ==
    IF validateCreate(table, data) # << >>
    THEN ServiceResult(rows, 0, << ValidationError(validateCreate(table, data)) >>, << >>)
    ELSE IF fault = "write"
    THEN ServiceResult(rows, 1, << DatabaseError("Failed to create record") >>, << >>)
    ELSE IF fault = "readback"
    THEN ServiceResult(dbCreate(rows, NewRow(table, id, data)), 1,
                       << DatabaseError("Failed to find record") >>, << >>)
    ELSE ServiceResult(dbCreate(rows, NewRow(table, id, data)), 1, << >>,
                       dbFindById(dbCreate(rows, NewRow(table, id, data)), id))

\* wineService.update / sakeService.update
ServiceUpdate(table, id, data, rows, fault) ==
    IF validateUpdate(table, data) # << >>
    THEN ServiceResult(rows, 0, << ValidationError(validateUpdate(table, data)) >>, << >>)
    ELSE IF fault = "read"
    THEN ServiceResult(rows, 0, << DatabaseError("Failed to find record") >>, << >>)
    ELSE IF dbFindById(rows, id) = << >>
    THEN ServiceResult(rows, 0, << DatabaseError("record not found with id") >>, << >>)
    ELSE IF fault = "write"
    THEN ServiceResult(rows, 1, << DatabaseError("Failed to update record") >>, << >>)
    ELSE IF fault = "readback"
    THEN ServiceResult(dbUpdate(table, rows, id, data), 1,
                       << DatabaseError("Failed to find record") >>, << >>)
    ELSE ServiceResult(dbUpdate(table, rows, id, data), 1, << >>,
                       dbFindById(dbUpdate(table, rows, id, data), id))

\* wineService.delete / sakeService.delete
ServiceDelete(table, id, rows, fault) ==
    IF fault = "read"
    THEN ServiceResult(rows, 0, << DatabaseError("Failed to find record") >>, << >>)
    ELSE IF dbFindById(rows, id) = << >>
    THEN ServiceResult(rows, 0, << DatabaseError("record not found with id") >>, << >>)
    ELSE IF fault = "write"
    THEN ServiceResult(rows, 1, << DatabaseError("Failed to delete record") >>, << >>)
    ELSE ServiceResult(dbDelete(rows, id), 1, << >>, << >>)

\* the service call of an operation of the records context
ServiceCall(kind, table, id, data, rows, newId, fault) ==
    CASE kind = "add"    -> ServiceCreate(table, data, rows, newId, fault)
      [] kind = "update" -> ServiceUpdate(table, id, data, rows, fault)
      [] kind = "delete" -> ServiceDelete(table, id, rows, fault)

\* RetryService.defaultRetryCondition on the errors above: a DatabaseError
\* whose message contains "not found" and a ValidationError are not retried,
\* every other error is
defaultRetryCondition(error) ==
    ~(\/ (error.name = "DatabaseError" /\ error.message = << "record not found with id" >>)
      \/ error.name = "ValidationError")

\* the retryCondition of executeImageOperation: only timeout, network and
\* temporary errors are retried
imageRetryCondition(error) ==
    error.message \in {<< "timeout" >>, << "network" >>, << "temporary" >>}

(***************************************************************************)
(* RetryService.executeWithRetry as a state machine                        *)
(***************************************************************************)
\* the option sets of the callers: executeDbOperation, executeImageOperation,
\* the defaults of executeWithRetry, and a single attempt
RetryCalls ==
    {[maxAttempts |-> 3, retryCondition |-> "default", onRetry |-> TRUE],
     [maxAttempts |-> 2, retryCondition |-> "image", onRetry |-> TRUE],
     [maxAttempts |-> 3, retryCondition |-> "default", onRetry |-> FALSE],
     [maxAttempts |-> 1, retryCondition |-> "default", onRetry |-> FALSE]}

\* the errors an operation may throw
RetryErrors ==
    {DatabaseError("connection"), DatabaseError("record not found with id"),
     ValidationError(<< "name wa hissu" >>),
     [name |-> "Error", message |-> << "timeout" >>],
     [name |-> "Error", message |-> << "unknown" >>]}

\* retryCondition(error)
retryCondition(options, error) ==
    IF options.retryCondition = "default" THEN defaultRetryCondition(error)
                                          ELSE imageRetryCondition(error)

\* mutant: the retry condition is not consulted
AfterFailure_IgnoresCondition(accepted, attemptNo, maxAttempts) ==
    IF attemptNo = maxAttempts THEN "throw" ELSE "retry"

\* lines 43-50 of the catch block: rethrow or go on
AfterFailure(accepted, attemptNo, maxAttempts) ==
    IF ~accepted THEN "throw"
    ELSE IF attemptNo = maxAttempts THEN "throw"
    ELSE "retry"

RetryInit ==
    /\ retryOptions \in RetryCalls
    /\ retryPc = "loop"
    /\ retryAttempt = 1
    /\ invocations = 0 /\ onRetryCalls = 0
    /\ retryErrors = << >> /\ retryOutcome = << >>

\* the head of the for loop: the next attempt starts, or the loop is left and
\* lastError is thrown (line 66)
LoopStep ==
    /\ retryPc = "loop"
    /\ IF retryAttempt <= retryOptions.maxAttempts
       THEN /\ invocations' = invocations + 1
            /\ retryPc' = "awaiting"
            /\ UNCHANGED retryOutcome
       ELSE /\ retryPc' = "thrown"
            /\ retryOutcome' = << retryErrors[Len(retryErrors)] >>
            /\ UNCHANGED invocations
    /\ UNCHANGED << retryOptions, retryAttempt, onRetryCalls, retryErrors >>

\* line 38: the awaited operation resolves
OperationResolves ==
    /\ retryPc = "awaiting"
    /\ retryPc' = "returned"
    /\ retryOutcome' = << [value |-> "created"] >>
    /\ UNCHANGED << retryOptions, retryAttempt, invocations, onRetryCalls, retryErrors >>

\* lines 39-58: the awaited operation rejects and the catch block runs up to
\* its throw or its await of the delay
OperationRejects(error) ==
    /\ retryPc = "awaiting"
    /\ retryErrors' = Append(retryErrors, error)
    /\ IF AfterFailure(retryCondition(retryOptions, error), retryAttempt,
                       retryOptions.maxAttempts) = "throw"
       THEN /\ retryPc' = "thrown"
            /\ retryOutcome' = << error >>
            /\ UNCHANGED onRetryCalls
       ELSE /\ retryPc' = "delaying"
            /\ onRetryCalls' = IF retryOptions.onRetry THEN onRetryCalls + 1
                                                       ELSE onRetryCalls
            /\ UNCHANGED retryOutcome
    /\ UNCHANGED << retryOptions, retryAttempt, invocations >>

\* lines 58-62: the timer of delay() fires and the loop goes on
DelayElapses ==
    /\ retryPc = "delaying"
    /\ retryPc' = "loop"
    /\ retryAttempt' = retryAttempt + 1
    /\ UNCHANGED << retryOptions, invocations, onRetryCalls, retryErrors, retryOutcome >>

NextRetry ==
    \/ LoopStep /\ UNCHANGED << genVars, simVars, scoreVars, overlapVars, ctxVars >>
    \/ OperationResolves /\ UNCHANGED << genVars, simVars, scoreVars, overlapVars, ctxVars >>
    \/ (\E error \in RetryErrors : OperationRejects(error))
          /\ UNCHANGED << genVars, simVars, scoreVars, overlapVars, ctxVars >>
    \/ DelayElapses /\ UNCHANGED << genVars, simVars, scoreVars, overlapVars, ctxVars >>

InitRetry == GenInit /\ SimIdle /\ ScoreIdle /\ RetryInit /\ OverlapIdle /\ CtxIdle

\* every awaited operation settles and every timer fires
SpecRetry == InitRetry /\ [][NextRetry]_vars /\ WF_vars(NextRetry)

(***************************************************************************)
(* The records context (context/RecordsContext.tsx).  The toasts change    *)
(* nothing the model holds and are left out.                               *)
(***************************************************************************)
Action(type, payload) == [type |-> type, payload |-> payload]

\* null is ""
recordsReducer(s, action) ==
    CASE action.type = "SET_LOADING" -> [s EXCEPT !.loading = action.payload]
      [] action.type = "SET_ERROR" ->
            [s EXCEPT !.error = action.payload, !.loading = FALSE]
      [] action.type = "SET_WINES" -> [s EXCEPT !.wines = action.payload]
      [] action.type = "SET_SAKES" -> [s EXCEPT !.sakes = action.payload]
      [] action.type = "SET_RECOMMENDATIONS" ->
            [s EXCEPT !.recommendations = action.payload]
      [] action.type = "ADD_WINE" -> [s EXCEPT !.wines = << action.payload >> \o @]
      [] action.type = "ADD_SAKE" -> [s EXCEPT !.sakes = << action.payload >> \o @]
      [] action.type = "UPDATE_WINE" ->
            [s EXCEPT !.wines = [i \in 1..Len(@) |->
                IF @[i].id = action.payload.id THEN action.payload ELSE @[i]]]
      [] action.type = "UPDATE_SAKE" ->
            [s EXCEPT !.sakes = [i \in 1..Len(@) |->
                IF @[i].id = action.payload.id THEN action.payload ELSE @[i]]]
      [] action.type = "DELETE_WINE" ->
            [s EXCEPT !.wines = SelectSeq(@, LAMBDA w : w.id # action.payload)]
      [] action.type = "DELETE_SAKE" ->
            [s EXCEPT !.sakes = SelectSeq(@, LAMBDA k : k.id # action.payload)]
      [] action.type = "RESET_STATE" ->
            [wines |-> << >>, sakes |-> << >>, recommendations |-> << >>,
             loading |-> FALSE, error |-> ""]
      [] OTHER -> s

\* dispatch(...) calls in order
RECURSIVE Dispatch(_, _)
Dispatch(s, actions) ==
    IF actions = << >> THEN s
    ELSE Dispatch(recordsReducer(s, Head(actions)), Tail(actions))

\* errorMessageService.formatError: the text shown for an error
formatError(error) ==
    CASE error.name = "ValidationError" -> "nyuuryoku error"
      [] error.message = << "record not found with id" >> -> "record ga mitsukarimasen"
      [] OTHER -> "database error"

\* the first two dispatches of every operation
OnStart(s) ==
    Dispatch(s, << Action("SET_LOADING", TRUE), Action("SET_ERROR", "") >>)

\* the dispatch that follows the service call of an operation
RecordAction(kind, table, id, value) ==
    CASE kind = "add" ->
            Action(IF table = "wine" THEN "ADD_WINE" ELSE "ADD_SAKE", value[1])
      [] kind = "update" ->
            Action(IF table = "wine" THEN "UPDATE_WINE" ELSE "UPDATE_SAKE", value[1])
      [] kind = "delete" ->
            Action(IF table = "wine" THEN "DELETE_WINE" ELSE "DELETE_SAKE", id)

\* mutant: the error is not stored
handleError_NoDispatch(s, error) == s

\* handleError
handleError(s, error) == Dispatch(s, << Action("SET_ERROR", formatError(error)) >>)

\* the finally block of every operation
OnFinally(s) == Dispatch(s, << Action("SET_LOADING", FALSE) >>)

\* mutant: the recommendations shown are kept when the refresh fails
OnRefreshError_Keep(s) == s

\* the catch block of refreshRecommendations
OnRefreshError(s) == Dispatch(s, << Action("SET_RECOMMENDATIONS", << >>) >>)

\* the context's list of a table
ListOf(s, table) == IF table = "wine" THEN s.wines ELSE s.sakes

\* operations of the records context in one run
MaxOps == 2

\* executeDbOperation: maxAttempts
MaxAttempts == 3

WineData(name, region, grape, vintage, rating) ==
    [name |-> name, region |-> region, grape |-> grape, vintage |-> vintage,
     rating |-> rating]

SakeData(name, brewery, type, region, rating) ==
    [name |-> name, brewery |-> brewery, type |-> type, region |-> region,
     rating |-> rating]

\* inputs of addWine: two valid ones, then an empty name, a rating out of
\* range, a vintage out of range and a name of 101 characters
WineInputs ==
    {WineData(<< "Chablis" >>, << "France" >>, << "Merlot" >>, << 2018 >>, << 5 >>),
     WineData(<< "Table" >>, << >>, << >>, << >>, << 3 >>),
     WineData(<< "" >>, << "France" >>, << >>, << >>, << 4 >>),
     WineData(<< "Chablis" >>, << >>, << >>, << >>, << 6 >>),
     WineData(<< "Chablis" >>, << >>, << >>, << 1700 >>, << 4 >>),
     WineData(<< "x101" >>, << >>, << >>, << >>, << 4 >>)}

\* inputs of updateWine: a new rating, a cleared region, then an empty name
\* and the vintage 0
WineUpdates ==
    {WineData(<< >>, << >>, << >>, << >>, << 2 >>),
     WineData(<< >>, << "" >>, << >>, << >>, << >>),
     WineData(<< "" >>, << >>, << >>, << >>, << >>),
     WineData(<< >>, << >>, << >>, << 0 >>, << >>)}

\* inputs of addSake: a valid one, then an unknown type and a rating of 0
SakeInputs ==
    {SakeData(<< "Dassai" >>, << "Asahi" >>, << "Junmai" >>, << "Niigata" >>, << 5 >>),
     SakeData(<< "Dassai" >>, << >>, << "Beer" >>, << >>, << 4 >>),
     SakeData(<< "Dassai" >>, << >>, << >>, << >>, << 0 >>)}

SakeUpdates ==
    {SakeData(<< >>, << >>, << "Ginjo" >>, << >>, << 4 >>),
     SakeData(<< >>, << >>, << "x51" >>, << >>, << >>)}

\* the tables a run starts from: empty, or three wines and two sakes
StoredWines ==
    << NewRow("wine", "3", WineData(<< "Chablis" >>, << "France" >>, << "Merlot" >>, << 2018 >>, << 3 >>)),
       NewRow("wine", "2", WineData(<< "Chablis" >>, << "France" >>, << "Merlot" >>, << 2018 >>, << 4 >>)),
       NewRow("wine", "1", WineData(<< "Chablis" >>, << "France" >>, << "Merlot" >>, << 2018 >>, << 5 >>)) >>

StoredSakes ==
    << NewRow("sake", "5", SakeData(<< "Dassai" >>, << >>, << "Junmai" >>, << "niigata" >>, << 4 >>)),
       NewRow("sake", "4", SakeData(<< "Dassai" >>, << "Asahi" >>, << "Junmai" >>, << "Niigata" >>, << 5 >>)) >>

Rows(table) == IF table = "wine" THEN storeWines ELSE storeSakes

\* the ids an update or a delete is asked for: the newest row's, or none's
TargetIds(table) ==
    {"missing"} \cup (IF Rows(table) = << >> THEN {} ELSE {Rows(table)[1].id})

CtxInit ==
    /\ state = [wines |-> << >>, sakes |-> << >>, recommendations |-> << >>,
                loading |-> FALSE, error |-> ""]
    /\ \E tables \in {<< << >>, << >> >>, << StoredWines, StoredSakes >>} :
           storeWines = tables[1] /\ storeSakes = tables[2]
    /\ nextId = Len(storeWines) + Len(storeSakes)
    /\ op = [kind |-> "none", table |-> "", id |-> "", data |-> << >>]
    /\ opPc = "idle"
    /\ attempt = 0
    /\ opOutcome = "none"
    /\ opError = << >>
    /\ listBefore = << >> /\ tableBefore = << >>
    /\ lastAttempt = << >>
    /\ ops = 0

\* addWine / updateWine / deleteWine / addSake / updateSake / deleteSake up
\* to the await of the service call
BeginOp(kind, table, id, data) ==
    /\ opPc = "idle" /\ pc = "idle"
    /\ ops > 0 /\ ops < MaxOps
    /\ state' = OnStart(state)
    /\ op' = [kind |-> kind, table |-> table, id |-> id, data |-> data]
    /\ opPc' = "service"
    /\ attempt' = 1
    /\ opOutcome' = "pending"
    /\ opError' = << >>
    /\ listBefore' = ListOf(state, table)
    /\ tableBefore' = Rows(table)
    /\ lastAttempt' = << >>
    /\ ops' = ops + 1
    /\ UNCHANGED << storeWines, storeSakes, nextId >>

\* refreshData up to the await of the two reads; the provider's effect calls
\* it on mount, before any other operation
BeginRefreshData ==
    /\ opPc = "idle" /\ pc = "idle"
    /\ ops < MaxOps
    /\ state' = OnStart(state)
    /\ op' = [kind |-> "refreshData", table |-> "", id |-> "", data |-> << >>]
    /\ opPc' = "loading"
    /\ attempt' = 1
    /\ opOutcome' = "pending"
    /\ opError' = << >>
    /\ listBefore' = << >> /\ tableBefore' = << >>
    /\ lastAttempt' = << >>
    /\ ops' = ops + 1
    /\ UNCHANGED << storeWines, storeSakes, nextId >>

\* one attempt of executeDbOperation(() => service.create / update / delete)
\* and what follows it: the dispatch and the start of refreshRecommendations
\* when it succeeds, the next attempt when its error is retried, the catch
\* and finally blocks when it is not
ServiceAttempt(fault) ==
    /\ opPc = "service"
    /\ op.kind = "add" => fault # "read"
    /\ op.kind = "delete" => fault # "readback"
    /\ \E r \in {ServiceCall(op.kind, op.table, op.id, op.data, Rows(op.table),
                             ToString(nextId + 1), fault)} :
        /\ lastAttempt' = << [result |-> r, rowsBefore |-> Rows(op.table),
                              kind |-> op.kind, table |-> op.table] >>
        /\ IF op.table = "wine"
           THEN storeWines' = r.rows /\ UNCHANGED storeSakes
           ELSE storeSakes' = r.rows /\ UNCHANGED storeWines
        /\ nextId' = IF op.kind = "add" /\ r.writes > 0 THEN nextId + 1 ELSE nextId
        /\ IF r.error = << >>
           THEN /\ state' = Dispatch(state, << RecordAction(op.kind, op.table, op.id, r.value) >>)
                /\ opPc' = "refreshing"
                /\ StartGenerate
                /\ UNCHANGED << attempt, opOutcome, opError >>
           ELSE IF defaultRetryCondition(r.error[1]) /\ attempt < MaxAttempts
           THEN /\ attempt' = attempt + 1
                /\ UNCHANGED << state, opPc, opOutcome, opError >>
                /\ UNCHANGED genVars
           ELSE /\ state' = OnFinally(handleError(state, r.error[1]))
                /\ opPc' = "idle"
                /\ opOutcome' = "rejected"
                /\ opError' = r.error
                /\ UNCHANGED attempt
                /\ UNCHANGED genVars
    /\ UNCHANGED << op, listBefore, tableBefore, ops >>

\* the two reads of refreshData settle (their attempts change nothing and
\* are not told apart): both succeed, or one has failed for good
LoadSettles(ok) ==
    /\ opPc = "loading"
    /\ IF ok
       THEN /\ state' = Dispatch(state, << Action("SET_WINES", storeWines),
                                           Action("SET_SAKES", storeSakes) >>)
            /\ opPc' = "refreshing"
            /\ StartGenerate
            /\ UNCHANGED << opOutcome, opError >>
       ELSE /\ state' = OnFinally(handleError(state,
                                      DatabaseError("Failed to fetch records")))
            /\ opPc' = "idle"
            /\ opOutcome' = "resolved"
            /\ opError' = << >>
            /\ UNCHANGED genVars
    /\ UNCHANGED << storeWines, storeSakes, nextId, op, attempt, listBefore, tableBefore,
                    lastAttempt, ops >>

\* refreshRecommendations: generateRecommendations has resolved
RefreshResolved ==
    /\ opPc = "refreshing" /\ pc = "done"
    /\ state' = OnFinally(Dispatch(state, << Action("SET_RECOMMENDATIONS", result) >>))
    /\ opPc' = "idle"
    /\ opOutcome' = "resolved"
    /\ pc' = "idle"
    /\ UNCHANGED << settled, wineFetch, sakeFetch, wines, sakes, userPreferences,
                    candidates, result, recommendationCounter, now, issuedIds, calls >>
    /\ UNCHANGED << storeWines, storeSakes, nextId, op, attempt, opError, listBefore, tableBefore,
                    lastAttempt, ops >>

\* refreshRecommendations: the generateRecommendations of a recommendation
\* service that fails (the mocked service of the integration test) rejects
RefreshRejected ==
    /\ opPc = "refreshing" /\ pc = "fetching"
    /\ state' = OnFinally(OnRefreshError(state))
    /\ opPc' = "idle"
    /\ opOutcome' = "resolved"
    /\ pc' = "idle"
    /\ settled' = "rejected"
    /\ UNCHANGED << wineFetch, sakeFetch, wines, sakes, userPreferences, candidates,
                    result, recommendationCounter, now, issuedIds, calls >>
    /\ UNCHANGED << storeWines, storeSakes, nextId, op, attempt, opError, listBefore, tableBefore,
                    lastAttempt, ops >>

clearError ==
    /\ ops > 0
    /\ state.error # ""
    /\ state' = Dispatch(state, << Action("SET_ERROR", "") >>)
    /\ UNCHANGED << storeWines, storeSakes, nextId, op, opPc, attempt, opOutcome,
                    opError, listBefore, tableBefore, lastAttempt, ops >>

\* SpecCtx: the provider is mounted over one of the two initial stores and
\* up to MaxOps operations run one after the other
NextCtx ==
    \/ BeginRefreshData /\ UNCHANGED << genVars, pureVars >>
    \/ /\ \E table \in {"wine", "sake"} :
            \/ \E data \in (IF table = "wine" THEN WineInputs ELSE SakeInputs) :
                    BeginOp("add", table, "", data)
            \/ \E id \in TargetIds(table) :
               \E data \in (IF table = "wine" THEN WineUpdates ELSE SakeUpdates) :
                    BeginOp("update", table, id, data)
            \/ \E id \in TargetIds(table) : BeginOp("delete", table, id, << >>)
       /\ UNCHANGED << genVars, pureVars >>
    \/ (\E fault \in {"none", "read", "write", "readback"} : ServiceAttempt(fault))
            /\ UNCHANGED pureVars
    \/ (\E ok \in BOOLEAN : LoadSettles(ok)) /\ UNCHANGED pureVars
    \/ opPc = "refreshing" /\ WineFetchOk(storeWines) /\ UNCHANGED << pureVars, ctxVars >>
    \/ opPc = "refreshing" /\ SakeFetchOk(storeSakes) /\ UNCHANGED << pureVars, ctxVars >>
    \/ opPc = "refreshing" /\ WineFetchFail /\ UNCHANGED << pureVars, ctxVars >>
    \/ opPc = "refreshing" /\ SakeFetchFail /\ UNCHANGED << pureVars, ctxVars >>
    \/ opPc = "refreshing" /\ Compute(-1) /\ UNCHANGED << pureVars, ctxVars >>
    \/ RefreshResolved /\ UNCHANGED pureVars
    \/ RefreshRejected /\ UNCHANGED pureVars
    \/ clearError /\ UNCHANGED << genVars, pureVars >>

InitCtx == GenInit /\ PureIdle /\ CtxInit

SpecCtx == InitCtx /\ [][NextCtx]_vars

(***************************************************************************)
(* Overlapping context operations (RecordsContext.tsx lines 154-325): the  *)
(* callbacks are async functions and nothing serialises them, so a second  *)
(* one can start while the first awaits the service or the reads of        *)
(* generateRecommendations. Each query is awaited on its own and the       *)
(* order in which the queries of different callbacks are executed and      *)
(* delivered is not fixed by the code: it is a nondeterministic choice.    *)
(* Services do not fail here.                                              *)
(***************************************************************************)

\* the number of callbacks in flight at the same time
MaxTasks == 2

Tasks == 1..MaxTasks

\* the callbacks that overlap: addWine of a valid 5-point wine, deleteWine of
\* the newest stored wine, deleteWine of a missing id, and refreshData
OverlapOps ==
    {[kind |-> "add", table |-> "wine", id |-> "",
      data |-> WineData(<< "Chablis" >>, << "France" >>, << "Merlot" >>, << 2018 >>, << 5 >>)],
     [kind |-> "delete", table |-> "wine", id |-> "3", data |-> << >>],
     [kind |-> "delete", table |-> "wine", id |-> "missing", data |-> << >>],
     [kind |-> "refreshData", table |-> "", id |-> "", data |-> << >>]}

\* a callback not yet called
IdleTask ==
    [kind |-> "none", table |-> "", id |-> "", data |-> << >>, pc |-> "idle",
     winesRead |-> << >>, sakesRead |-> << >>]

\* generateRecommendations (recommendationService.ts lines 296-338) on the
\* lists the two findAll calls returned: the list returned and the counter
\* after it, the clock not advancing during the call
Recommend(ws, ss, counter, clock) ==
    IF TooFewRecords(ws, ss) THEN [recs |-> << >>, all |-> << >>, counter |-> counter]
    ELSE CHOOSE generated \in
            {[recs |-> RankAndTruncate(drawn.recs), all |-> drawn.recs,
              counter |-> drawn.counter] :
                drawn \in {AssignIds(entries, 1, counter,
                                     [k \in 1..Len(entries) |-> clock]) :
                                entries \in {Entries(ws, ss)}}} : TRUE

\* the generateRecommendations call of the mount effect, on the stored tables
MountRecommendations == Recommend(StoredWines, StoredSakes, 0, 0)

\* the provider after its mount effect: refreshData has loaded the stored
\* tables and the recommendations generated from them
OverlapInit ==
    /\ storeWines = StoredWines /\ storeSakes = StoredSakes
    /\ nextId = Len(StoredWines) + Len(StoredSakes)
    /\ \E mounted \in {MountRecommendations} :
            state = [wines |-> StoredWines, sakes |-> StoredSakes,
                     recommendations |-> mounted.recs,
                     loading |-> FALSE, error |-> ""]
    /\ op = [kind |-> "none", table |-> "", id |-> "", data |-> << >>]
    /\ opPc = "idle"
    /\ attempt = 0
    /\ opOutcome = "none"
    /\ opError = << >>
    /\ listBefore = << >> /\ tableBefore = << >>
    /\ lastAttempt = << >>
    /\ ops = 0
    /\ tasks = [t \in Tasks |-> IdleTask]

\* a callback up to its first await: SET_LOADING true and SET_ERROR null,
\* then the service call (addWine, deleteWine) or the two findAll calls of
\* refreshData are issued
BeginTask(t, o) ==
    /\ tasks[t].pc = "idle"
    /\ state' = OnStart(state)
    /\ tasks' = [tasks EXCEPT ![t] =
                    [kind |-> o.kind, table |-> o.table, id |-> o.id, data |-> o.data,
                     pc |-> IF o.kind = "refreshData" THEN "loading" ELSE "service",
                     winesRead |-> << >>, sakesRead |-> << >>]]
    /\ UNCHANGED << storeWines, storeSakes, nextId >>

\* the service call of addWine / deleteWine settles: on success the record
\* action is dispatched, the toast is shown (it touches no state of the
\* context) and refreshRecommendations is entered; on an error (the id is
\* missing) SET_ERROR and SET_LOADING false
TaskService(t) ==
    /\ tasks[t].pc = "service"
    /\ LET k == tasks[t]
           r == ServiceCall(k.kind, k.table, k.id, k.data, Rows(k.table),
                            ToString(nextId + 1), "none")
       IN  /\ storeWines' = IF k.table = "wine" THEN r.rows ELSE storeWines
           /\ storeSakes' = IF k.table = "sake" THEN r.rows ELSE storeSakes
           /\ nextId' = IF k.kind = "add" /\ r.writes > 0 THEN nextId + 1 ELSE nextId
           /\ IF r.error = << >>
              THEN /\ state' = Dispatch(state, << RecordAction(k.kind, k.table, k.id, r.value) >>)
                   /\ tasks' = [tasks EXCEPT ![t].pc = "reading"]
              ELSE /\ state' = OnFinally(handleError(state, r.error[1]))
                   /\ tasks' = [tasks EXCEPT ![t].pc = "done"]

\* the two findAll calls of refreshData have resolved: SET_WINES, SET_SAKES,
\* then refreshRecommendations is entered
TaskLoad(t) ==
    /\ tasks[t].pc = "loading"
    /\ state' = Dispatch(state, << Action("SET_WINES", storeWines),
                                   Action("SET_SAKES", storeSakes) >>)
    /\ tasks' = [tasks EXCEPT ![t].pc = "reading"]
    /\ UNCHANGED << storeWines, storeSakes, nextId >>

\* wineService.findAll() of generateRecommendations is executed on the store
ReadWines(t) ==
    /\ tasks[t].pc = "reading" /\ tasks[t].winesRead = << >>
    /\ tasks' = [tasks EXCEPT ![t].winesRead = << storeWines >>]
    /\ UNCHANGED << state, storeWines, storeSakes, nextId >>

\* sakeService.findAll() of generateRecommendations is executed on the store
ReadSakes(t) ==
    /\ tasks[t].pc = "reading" /\ tasks[t].sakesRead = << >>
    /\ tasks' = [tasks EXCEPT ![t].sakesRead = << storeSakes >>]
    /\ UNCHANGED << state, storeWines, storeSakes, nextId >>

\* both lists are delivered to generateRecommendations, which returns;
\* refreshRecommendations dispatches SET_RECOMMENDATIONS and the callback
\* ends with SET_LOADING false
TaskCompletes(t) ==
    /\ tasks[t].pc = "reading"
    /\ tasks[t].winesRead # << >> /\ tasks[t].sakesRead # << >>
    /\ \E g \in {Recommend(tasks[t].winesRead[1], tasks[t].sakesRead[1],
                           recommendationCounter, now)} :
           /\ state' = OnFinally(Dispatch(state, << Action("SET_RECOMMENDATIONS", g.recs) >>))
           /\ recommendationCounter' = g.counter
           /\ issuedIds' = issuedIds \o [k \in 1..Len(g.all) |-> g.all[k].id]
    /\ tasks' = [tasks EXCEPT ![t].pc = "done"]
    /\ UNCHANGED << storeWines, storeSakes, nextId >>

\* what no callback of the context changes while callbacks overlap
overlapFrame ==
    << pc, settled, wineFetch, sakeFetch, wines, sakes, userPreferences, candidates,
       result, now, calls, op, opPc, attempt, opOutcome, opError, listBefore,
       tableBefore, lastAttempt, ops, simVars, scoreVars, retryVars >>

NextOverlap ==
    \/ (\E t \in Tasks : \E o \in OverlapOps : BeginTask(t, o))
            /\ UNCHANGED << recommendationCounter, issuedIds, overlapFrame >>
    \/ (\E t \in Tasks : TaskService(t))
            /\ UNCHANGED << recommendationCounter, issuedIds, overlapFrame >>
    \/ (\E t \in Tasks : TaskLoad(t))
            /\ UNCHANGED << recommendationCounter, issuedIds, overlapFrame >>
    \/ (\E t \in Tasks : ReadWines(t))
            /\ UNCHANGED << recommendationCounter, issuedIds, overlapFrame >>
    \/ (\E t \in Tasks : ReadSakes(t))
            /\ UNCHANGED << recommendationCounter, issuedIds, overlapFrame >>
    \/ (\E t \in Tasks : TaskCompletes(t)) /\ UNCHANGED overlapFrame

\* the recommendation service after the call of the mount effect
OverlapGenInit ==
    /\ pc = "idle"
    /\ settled = "none"
    /\ wineFetch = "none" /\ sakeFetch = "none"
    /\ wines = << >> /\ sakes = << >>
    /\ userPreferences = << >>
    /\ candidates = << >>
    /\ result = << >>
    /\ \E mounted \in {MountRecommendations} :
            /\ recommendationCounter = mounted.counter
            /\ issuedIds = [k \in 1..Len(mounted.all) |-> mounted.all[k].id]
    /\ now = 0
    /\ calls = 0

InitOverlap == OverlapGenInit /\ SimIdle /\ ScoreIdle /\ RetryIdle /\ OverlapInit

SpecOverlap == InitOverlap /\ [][NextOverlap]_vars

(***************************************************************************)
(* Properties                                                              *)
(***************************************************************************)
BothFetched == wineFetch = "ok" /\ sakeFetch = "ok"
Returned == pc = "done" /\ settled = "resolved"
Contains(tokens, word) == \E i \in 1..Len(tokens) : tokens[i] = word
AllDistinct(s) == \A i, j \in 1..Len(s) : i # j => s[i] # s[j]

\* C1: whenever the wine and the sake snapshot together hold fewer than 3
\* records (both empty included), generateRecommendations returns the empty
\* list.
C1_TooFewRecordsGiveEmptyList ==
    (pc = "done" /\ BothFetched /\ Len(wines) + Len(sakes) < 3)
        => (settled = "resolved" /\ result = << >>)

\* a snapshot of two records that the generator would recommend from
C1_Witness ==
    /\ Returned /\ BothFetched
    /\ Len(wines) + Len(sakes) = 2
    /\ Entries(wines, sakes) # << >>
    /\ result = << >>

\* C2: if either fetch fails, in either order of completion and whatever the
\* other fetch does, the call resolves to the empty list, never rejects and
\* never returns a partial list; scoring starts only after both fetches have
\* succeeded.
C2_FetchFailureResolvesToEmptyList ==
    /\ (wineFetch = "failed" \/ sakeFetch = "failed")
           => (Returned /\ result = << >> /\ candidates = << >>)
    /\ settled # "rejected"
    /\ (pc = "computing" \/ candidates # << >> \/ result # << >>) => BothFetched

\* the wine fetch fails after the sake fetch has succeeded
C2_Witness ==
    /\ wineFetch = "failed" /\ sakeFetch = "ok"
    /\ Returned /\ result = << >>

\* C3: the returned list has at most 5 elements.
C3_AtMostFiveReturned == Len(result) <= 5

\* more than 5 candidates were generated and 5 of them returned
C3_Witness == Returned /\ Len(candidates) > 5 /\ Len(result) = 5

\* C4: the returned list is sorted by similarity in non-increasing order.
C4_SortedBySimilarity ==
    \A i \in 1..(Len(result) - 1) :
        RatLe(result[i + 1].similarity, result[i].similarity)

\* the candidates were generated out of order and the sort moved them
C4_Witness ==
    /\ Returned
    /\ \E i \in 1..(Len(candidates) - 1) :
           RatLt(candidates[i].similarity, candidates[i + 1].similarity)
    /\ \E i \in 1..(Len(result) - 1) :
           RatLt(result[i + 1].similarity, result[i].similarity)

\* C5: no two returned recommendations have the same type and the same
\* suggestedItem id.
C5_ResultDeduplicated ==
    \A i, j \in 1..Len(result) :
        i # j => ~(/\ result[i].type = result[j].type
                   /\ result[i].suggestedItem.id = result[j].suggestedItem.id)

\* C6: the pairwise similarity of two items of one category lies in [0, 1],
\* whatever optional attributes each defines and whatever the vintage gap.
C6_SimilarityInUnitInterval ==
    simForward # << >> => (RatLe(Zero, simForward[1]) /\ RatLe(simForward[1], One))

\* two wines that share no comparable attribute but vintages over 10 years apart
C6_Witness ==
    /\ simForward # << >>
    /\ simType = "wine"
    /\ TruthyNum(simLeft.vintage) /\ TruthyNum(simRight.vintage)
    /\ Abs(simLeft.vintage - simRight.vintage) > 10
    /\ ~TruthyStr(simLeft.region) /\ ~TruthyStr(simLeft.grape)

\* C7: similarity(a, b) = similarity(b, a) for two wines and for two sakes.
C7_SimilaritySymmetric ==
    (simForward # << >> /\ simBackward # << >>) => simForward = simBackward

\* both orders computed for two different items that match in part, one of
\* them in letter case only
C7_Witness ==
    /\ simForward # << >> /\ simBackward # << >>
    /\ simLeft # simRight
    /\ simLeft.region # simRight.region
    /\ ToLowerCase(simLeft.region) = ToLowerCase(simRight.region)
    /\ simForward[1] # Zero /\ simForward[1] # One

\* C8: a similarity-based candidate never suggests the seed it was derived
\* from.
C8_NeverSuggestsItsSeed ==
    \A i \in 1..Len(candidates) :
        candidates[i].seed # "" => candidates[i].suggestedItem.id # candidates[i].seed

\* a seed with attributes (so similar to itself) has emitted a candidate
C8_Witness ==
    /\ Returned
    /\ \E i \in 1..Len(candidates) :
        /\ candidates[i].seed # ""
        /\ \E k \in 1..Len(wines) :
            /\ candidates[i].type = "wine"
            /\ wines[k].id = candidates[i].seed
            /\ RatGt(calculateWineSimilarity(wines[k], wines[k]), SIMILARITY_THRESHOLD)

\* C9: every returned recommendation has a non-empty reason that contains
\* the word for 'recommendation', whichever strategy produced it.
C9_ReasonNamesRecommendation ==
    \A i \in 1..Len(result) :
        Len(result[i].reason) > 0 /\ Contains(result[i].reason, "suisen")

\* a returned list with a similarity-based and a preference-based entry
C9_Witness ==
    /\ Returned
    /\ \E i, j \in 1..Len(result) : result[i].seed # "" /\ result[j].seed = ""

\* C10: every id generated is distinct from every other id generated in the
\* same call and in any earlier call, and the counter grows by one with each
\* generated id and never decreases or resets.
C10_IdsNeverCollide ==
    [][/\ AllDistinct(issuedIds')
       /\ recommendationCounter' >= recommendationCounter
       /\ recommendationCounter' - recommendationCounter
              = Len(issuedIds') - Len(issuedIds)]_vars

\* two calls have generated ids for the same items at the same clock reading
C10_Witness ==
    /\ calls = 2 /\ pc = "done"
    /\ now = 0
    /\ candidates # << >>
    /\ Len(issuedIds) = 2 * Len(candidates)

\* C11: every returned recommendation's suggestedItem is an element of the
\* snapshot fetched in that call, of the category its type names: type
\* "wine" only for items of the wine list, type "sake" only for items of the
\* sake list.
C11_SuggestedItemFromSnapshot ==
    \A i \in 1..Len(result) :
        /\ result[i].type \in {"wine", "sake"}
        /\ result[i].type = "wine" => Includes(wines, result[i].suggestedItem)
        /\ result[i].type = "sake" => Includes(sakes, result[i].suggestedItem)

\* a returned list with a wine and a sake recommendation
C11_Witness ==
    /\ Returned
    /\ \E i, j \in 1..Len(result) : result[i].type = "wine" /\ result[j].type = "sake"

UserKinds == {"add", "update", "delete"}

\* C12: while an add, update or delete operation of the records context is
\* in flight (from its start until its service call has completed) the
\* loading flag is true; once the operation has completed the flag is false.
C12_LoadingWhileInFlight ==
    /\ (opPc = "service" /\ op.kind \in UserKinds) => state.loading = TRUE
    /\ (opPc = "idle" /\ opOutcome \in {"resolved", "rejected"}) => state.loading = FALSE

\* the change an operation's dispatch makes to the context's list of its table
ChangeKept(list) ==
    LET value == lastAttempt[1].result.value
    IN  CASE op.kind = "add" -> list = << value[1] >> \o listBefore
          [] op.kind = "update" ->
                list = [i \in 1..Len(listBefore) |->
                           IF listBefore[i].id = op.id THEN value[1] ELSE listBefore[i]]
          [] op.kind = "delete" ->
                list = SelectSeq(listBefore, LAMBDA x : x.id # op.id)

\* C13: if generateRecommendations rejects during the refresh that follows a
\* successful add, update or delete, the operation still resolves, the
\* record change is kept in the context state and the context's
\* recommendations become the empty list.
C13_RefreshFailureNeverFailsOperation ==
    [][(opPc = "refreshing" /\ op.kind \in UserKinds /\ settled' = "rejected")
          => /\ opPc' = "idle"
             /\ opOutcome' = "resolved"
             /\ state'.recommendations = << >>
             /\ ChangeKept(ListOf(state', op.table))]_vars

\* an addWine onto three loaded wines, with recommendations shown, whose
\* refresh was rejected
C13_Witness ==
    /\ opPc = "idle" /\ settled = "rejected"
    /\ op.kind = "add" /\ op.table = "wine"
    /\ opOutcome = "resolved"
    /\ Len(listBefore) = 3 /\ Len(state.wines) = 4
    /\ calls = 2 /\ issuedIds # << >>
    /\ state.recommendations = << >>

\* C14: if the service call of addWine fails, addWine rejects with that
\* error, the context's error becomes non-null and the context's wines list
\* is left exactly as it was before the call; a later clearError sets error
\* back to null.
C14_FailedAddWine ==
    [][/\ (opPc = "service" /\ op.kind = "add" /\ op.table = "wine"
              /\ opOutcome' = "rejected")
          => /\ opError' # << >>
             /\ opError' = lastAttempt'[1].result.error
             /\ state'.error # ""
             /\ state'.wines = listBefore
       /\ clearError => state'.error = ""]_vars

\* an addWine onto a loaded list was rejected and its error then cleared
C14_Witness ==
    /\ opPc = "idle" /\ op.kind = "add" /\ op.table = "wine"
    /\ opOutcome = "rejected"
    /\ opError # << >>
    /\ Len(state.wines) = 3
    /\ state.error = ""

\* an input wineService must reject: a name that is empty or longer than 100
\* characters, a rating outside 1..5, a region or grape longer than 100
\* characters, a vintage outside 1800..next year (a field an update leaves
\* undefined is not judged)
InvalidWineInput(kind, data) ==
    \/ kind = "add" /\ (~IsDefined(data.name) \/ ~IsDefined(data.rating))
    \/ IsDefined(data.name) /\ (data.name[1] = "" \/ Length(data.name[1]) > 100)
    \/ IsDefined(data.rating) /\ data.rating[1] \notin 1..5
    \/ IsDefined(data.region) /\ Length(data.region[1]) > 100
    \/ IsDefined(data.grape) /\ Length(data.grape[1]) > 100
    \/ IsDefined(data.vintage) /\ data.vintage[1] \notin 1800..(CurrentYear + 1)

\* C15: wineService never writes to the database for a request it rejects:
\* create or update with invalid input raises ValidationError, and update or
\* delete of an id that does not exist (with valid input) raises
\* DatabaseError, in each case without calling the database's create, update
\* or delete, so the stored records are unchanged.
C15_RejectedRequestNeverWrites ==
    (lastAttempt # << >> /\ op.table = "wine") =>
        LET call == lastAttempt[1]
            invalid == op.kind \in {"add", "update"} /\ InvalidWineInput(op.kind, op.data)
            missing == /\ op.kind \in {"update", "delete"}
                       /\ \A i \in 1..Len(call.rowsBefore) : call.rowsBefore[i].id # op.id
        IN  /\ invalid => /\ call.result.error # << >>
                          /\ call.result.error[1].name = "ValidationError"
            /\ (missing /\ ~invalid) => /\ call.result.error # << >>
                                        /\ call.result.error[1].name = "DatabaseError"
            /\ (invalid \/ missing) => /\ call.result.writes = 0
                                       /\ call.result.rows = call.rowsBefore
                                       /\ storeWines = call.rowsBefore

\* an update of a stored wine was rejected for its input
C15_Witness ==
    /\ lastAttempt # << >>
    /\ op.kind = "update" /\ op.table = "wine"
    /\ InvalidWineInput(op.kind, op.data)
    /\ \E i \in 1..Len(storeWines) : storeWines[i].id = op.id
    /\ lastAttempt[1].result.error # << >>
    /\ opOutcome = "rejected"

\* the sum of the ratings of the items rated 4 or more that carry value v
RECURSIVE HighRatedSum(_, _, _)
HighRatedSum(items, attr, v) ==
    IF items = << >> THEN 0
    ELSE (IF Head(items).rating >= 4 /\ Head(items)[attr] = v
          THEN Head(items).rating ELSE 0)
         + HighRatedSum(Tail(items), attr, v)

WeightsAreSums(map, items, attr) ==
    LET carried(v) == \E i \in 1..Len(items) :
                          items[i].rating >= 4 /\ items[i][attr] = v
        values == {items[i][attr] : i \in 1..Len(items)} \ {""}
    IN  /\ DOMAIN map \subseteq values
        /\ \A v \in values :
               IF carried(v)
               THEN v \in DOMAIN map /\ map[v] = HighRatedSum(items, attr, v)
               ELSE v \notin DOMAIN map

AverageIs(average, items) ==
    IF Len(items) = 0 THEN average = Zero
    ELSE average.n * Len(items)
            = SumSeq([i \in 1..Len(items) |-> items[i].rating]) * average.d

\* C17: the profile's average rating of a category is the sum of the ratings
\* of all its items, high-rated and low-rated alike, divided by their count,
\* and is 0 when the category is empty; no error is raised for an empty
\* category.
C17_AverageOverAllItems ==
    /\ userPreferences # << >> =>
        /\ AverageIs(userPreferences[1].wine.averageRating, wines)
        /\ AverageIs(userPreferences[1].sake.averageRating, sakes)
    /\ (pc = "done" /\ BothFetched /\ Len(wines) + Len(sakes) >= 3)
            => (settled = "resolved" /\ userPreferences # << >>)

\* wines rated 3 and 5 with an average that is no integer, and no sake
C17_Witness ==
    /\ userPreferences # << >>
    /\ sakes = << >>
    /\ userPreferences[1].sake.averageRating = Zero
    /\ userPreferences[1].wine.averageRating.d # 1
    /\ \E i, j \in 1..Len(wines) : wines[i].rating = 3 /\ wines[j].rating = 5

\* C18: a snapshot of exactly three wines and no sakes, every wine rated at
\* least 4 and all three carrying the same region, yields at least one
\* recommendation of type "wine".
SameRegionSnapshot ==
    /\ Len(wines) = 3 /\ sakes = << >>
    /\ \A i \in 1..3 : wines[i].rating >= 4
    /\ TruthyStr(wines[1].region)
    /\ \A i \in 1..3 : wines[i].region = wines[1].region

SimDimensions(type) ==
    IF type = "wine"
    THEN << [field |-> "region", weight |-> Rat(4, 10), exact |-> TRUE],
            [field |-> "grape", weight |-> Rat(4, 10), exact |-> TRUE],
            [field |-> "vintage", weight |-> Rat(2, 10), exact |-> FALSE] >>
    ELSE << [field |-> "brewery", weight |-> Rat(3, 10), exact |-> TRUE],
            [field |-> "type", weight |-> Rat(4, 10), exact |-> TRUE],
            [field |-> "region", weight |-> Rat(3, 10), exact |-> TRUE] >>

\* the dimension is defined on both items of the pair
OnBoth(d, left, right) ==
    IF d.exact THEN left[d.field] # "" /\ right[d.field] # ""
               ELSE left[d.field] # 0 /\ right[d.field] # 0

\* the sum of the weights of the dimensions defined on both items
SharedWeight(type, left, right) ==
    LET dims == SimDimensions(type)
    IN  RatSumSeq([i \in 1..Len(dims) |->
                     IF OnBoth(dims[i], left, right) THEN dims[i].weight ELSE Zero])

\* two present values that differ, but only in letter case
CaseOnly(a, b) == a # "" /\ b # "" /\ a # b /\ ToLowerCase(a) = ToLowerCase(b)
\* two present values that differ in more than letter case
Unrelated(a, b) == a # "" /\ b # "" /\ ToLowerCase(a) # ToLowerCase(b)

\* the weighted sum of a computed similarity: similarity * shared weight
WeightedSum(similarity) ==
    RatMul(similarity, SharedWeight(simType, simLeft, simRight))

\* the dimension contributes nothing (its full weight) to the weighted sum
ScoresZero(d, similarity) ==
    RatLe(WeightedSum(similarity),
          RatSub(SharedWeight(simType, simLeft, simRight), d.weight))
ScoresFull(d, similarity) == RatLe(d.weight, WeightedSum(similarity))

\* C19 as stated: on every exact-match dimension, two values that differ only
\* in letter case score 0 for the dimension, as two unrelated values do.
C19_CaseOnlyDifferenceScoresZero ==
    simForward # << >> =>
        LET dims == SimDimensions(simType)
        IN  \A i \in 1..Len(dims) :
              (dims[i].exact /\ CaseOnly(simLeft[dims[i].field], simRight[dims[i].field]))
                  => ScoresZero(dims[i], simForward[1])

\* C19 as amended: wine region and grape and sake brewery and region are
\* compared after lower-casing both values, so two values that differ only in
\* letter case score the full weight of the dimension and only values that
\* still differ after lower-casing score 0; the sake type alone is compared
\* as it is, so two types that differ in any way score 0.
C19_CaseFoldedExceptSakeType ==
    simForward # << >> =>
        LET dims == SimDimensions(simType)
        IN  \A i \in 1..Len(dims) :
              LET a == simLeft[dims[i].field]
                  b == simRight[dims[i].field]
              IN  dims[i].exact =>
                    IF simType = "sake" /\ dims[i].field = "type"
                    THEN (a # "" /\ b # "" /\ a # b) => ScoresZero(dims[i], simForward[1])
                    ELSE /\ CaseOnly(a, b) => ScoresFull(dims[i], simForward[1])
                         /\ Unrelated(a, b) => ScoresZero(dims[i], simForward[1])

\* a wine pair whose regions differ only in letter case and whose grapes are
\* unrelated, and a similarity computed for it
C19_Witness ==
    /\ simType = "wine" /\ simForward # << >>
    /\ CaseOnly(simLeft.region, simRight.region)
    /\ Unrelated(simLeft.grape, simRight.grape)
    /\ simLeft.vintage = 0
    /\ simForward[1] = Rat(1, 2)

\* the score of one dimension defined on both items: 1 or 0 for an
\* exact-match dimension, 1 - difference / 10 and at least 0 for the vintage
DimensionScore(type, d, left, right) ==
    IF d.exact
    THEN IF type = "sake" /\ d.field = "type"
         THEN IF left[d.field] = right[d.field] THEN One ELSE Zero
         ELSE IF ToLowerCase(left[d.field]) = ToLowerCase(right[d.field])
              THEN One ELSE Zero
    ELSE LET diff == Abs(left[d.field] - right[d.field])
         IN  IF diff >= 10 THEN Zero ELSE Rat(10 - diff, 10)

\* the sum, over the dimensions defined on both items, of score * weight
SharedScore(type, left, right) ==
    LET dims == SimDimensions(type)
    IN  RatSumSeq([i \in 1..Len(dims) |->
                     IF OnBoth(dims[i], left, right)
                     THEN RatMul(DimensionScore(type, dims[i], left, right),
                                 dims[i].weight)
                     ELSE Zero])

\* every dimension defined on both items has score 1
AgreeWhereShared(type, left, right) ==
    LET dims == SimDimensions(type)
    IN  \A i \in 1..Len(dims) :
          OnBoth(dims[i], left, right)
              => DimensionScore(type, dims[i], left, right) = One

\* C20: a dimension absent on either item is skipped and its weight is left
\* out of the denominator: the similarity is the weighted sum of the scores
\* of the dimensions defined on both items divided by the sum of the weights
\* of those dimensions, hence 1 when the items agree on every dimension they
\* both define, and it is 0 when no dimension is defined on both.
C20_AbsentDimensionsSkipped ==
    simForward # << >> =>
        LET shared == SharedWeight(simType, simLeft, simRight)
        IN  IF shared = Zero
            THEN simForward[1] = Zero
            ELSE /\ simForward[1]
                      = RatDiv(SharedScore(simType, simLeft, simRight), shared)
                 /\ AgreeWhereShared(simType, simLeft, simRight)
                      => simForward[1] = One

\* a pair with a dimension absent on one item and defined on the other, in
\* agreement on the dimensions both define: the similarity is 1
C20_Witness ==
    /\ simForward # << >>
    /\ simType = "wine"
    /\ simLeft.grape = "" /\ simRight.grape # ""
    /\ simLeft.region # "" /\ simLeft.vintage # 0
    /\ AgreeWhereShared(simType, simLeft, simRight)
    /\ simForward[1] = One

\* the attribute dimensions of a preference score: the candidate's field, the
\* profile's mapping and the weight of the dimension
ScoreDimensions(type) ==
    IF type = "wine"
    THEN << [field |-> "region", map |-> "preferredRegions", weight |-> Rat(4, 10)],
            [field |-> "grape", map |-> "preferredGrapes", weight |-> Rat(4, 10)] >>
    ELSE << [field |-> "brewery", map |-> "preferredBreweries", weight |-> Rat(3, 10)],
            [field |-> "type", map |-> "preferredTypes", weight |-> Rat(4, 10)],
            [field |-> "region", map |-> "preferredRegions", weight |-> Rat(3, 10)] >>

\* the candidate's attribute is defined and is a key of the profile's mapping
MatchesProfile(d, item, profile) ==
    item[d.field] # "" /\ item[d.field] \in DOMAIN profile[d.map]

\* the candidate is a wine whose vintage lies in the preferred range
VintageInRange(type, item, profile) ==
    /\ type = "wine"
    /\ item.vintage # 0
    /\ profile.preferredVintageRange # << >>
    /\ profile.preferredVintageRange[1] <= item.vintage
    /\ item.vintage <= profile.preferredVintageRange[2]

ExpectedScore(type, item, profile) ==
    LET dims == ScoreDimensions(type)
    IN  RatAdd(RatSumSeq([i \in 1..Len(dims) |->
                            IF MatchesProfile(dims[i], item, profile)
                            THEN RatMul(RatOfInt(profile[dims[i].map][item[dims[i].field]]),
                                        dims[i].weight)
                            ELSE Zero]),
               IF VintageInRange(type, item, profile)
               THEN RatMul(profile.averageRating, Rat(2, 10)) ELSE Zero)

NothingMatches(type, item, profile) ==
    /\ ~VintageInRange(type, item, profile)
    /\ \A i \in 1..Len(ScoreDimensions(type)) :
          ~MatchesProfile(ScoreDimensions(type)[i], item, profile)

ItemsOf(type) == IF type = "wine" THEN wines ELSE sakes
PositionOf(items, id) == CHOOSE i \in 1..Len(items) : items[i].id = id

\* the candidates were generated: both lists fetched, at least three records
Generated == Returned /\ BothFetched /\ userPreferences # << >>

\* the similarity-based (preference-based) candidates of a category, in the
\* order of their emission
SimilarityCandidates(type) ==
    SelectSeq(candidates, LAMBDA c : c.type = type /\ c.seed # "")
PreferenceCandidates(type) ==
    SelectSeq(candidates, LAMBDA c : c.type = type /\ c.seed = "")

\* item i is one of the first three items rated at least 4
IsSeed(items, i) ==
    /\ items[i].rating >= 4
    /\ Cardinality({k \in 1..i : items[k].rating >= 4}) <= 3

\* item j is another item whose similarity to item i is above 0.3
IsMatch(type, items, i, j) ==
    /\ items[j].id # items[i].id
    /\ RatGt(Similarity(type, items[i], items[j]), Rat(3, 10))

\* item j is one of the first two matches of item i
IsConsidered(type, items, i, j) ==
    /\ IsMatch(type, items, i, j)
    /\ Cardinality({k \in 1..j : IsMatch(type, items, i, k)}) <= 2

ShouldEmit(type, items, i, j) ==
    /\ IsSeed(items, i)
    /\ IsConsidered(type, items, i, j)
    /\ RatGt(ScoreByPreferences(type, items[j], userPreferences[1]), Zero)

\* C22: the similarity-based candidates of a category are selected by list
\* order: the seeds are the first 3 items rated at least 4; for each seed only
\* the first 2 other items with similarity above 0.3 are considered, and each
\* of them is emitted if and only if its preference score is above 0; a later
\* match never replaces a considered one that is dropped, and a category
\* yields at most 6 such candidates.
C22_SimilarityCandidatesByListOrder ==
    Generated =>
        \A type \in {"wine", "sake"} :
            LET items == ItemsOf(type)
                sims == SimilarityCandidates(type)
                seedAt(k) == PositionOf(items, sims[k].seed)
                itemAt(k) == PositionOf(items, sims[k].suggestedItem.id)
            IN  /\ Len(sims) <= 6
                /\ \A k \in 1..Len(sims) :
                      /\ sims[k].suggestedItem = items[itemAt(k)]
                      /\ ShouldEmit(type, items, seedAt(k), itemAt(k))
                /\ \A i, j \in 1..Len(items) :
                      ShouldEmit(type, items, i, j)
                          => \E k \in 1..Len(sims) : seedAt(k) = i /\ itemAt(k) = j
                /\ \A k \in 1..(Len(sims) - 1) :
                      \/ seedAt(k) < seedAt(k + 1)
                      \/ seedAt(k) = seedAt(k + 1) /\ itemAt(k) < itemAt(k + 1)

\* a seed with three matches, the first of them dropped for a zero score:
\* only the second is emitted for that seed
C22_Witness ==
    /\ Generated
    /\ Len(wines) = 4 /\ IsSeed(wines, 1)
    /\ \A j \in 2..4 : IsMatch("wine", wines, 1, j)
    /\ ScoreByPreferences("wine", wines[2], userPreferences[1]) = Zero
    /\ RatGt(ScoreByPreferences("wine", wines[4], userPreferences[1]), Zero)
    /\ Len(SelectSeq(candidates, LAMBDA c : c.seed = wines[1].id)) = 1
    /\ SelectSeq(candidates, LAMBDA c : c.seed = wines[1].id)[1].suggestedItem = wines[3]

\* the score of item i is above the average rating of its category
AboveAverage(type, items, i) ==
    RatGt(ScoreByPreferences(type, items[i], userPreferences[1]),
          userPreferences[1][type].averageRating)

\* the candidates prefs suggest, in order, the items at the first two of the
\* positions
FirstTwoOf(items, positions, prefs) ==
    /\ Len(prefs) = Min(2, Cardinality(positions))
    /\ \A k \in 1..Len(prefs) :
          \E p \in positions :
              /\ Cardinality({q \in positions : q <= p}) = k
              /\ prefs[k].suggestedItem = items[p]

\* C23 as stated: the preference-based candidates of a category are the first
\* 2, in list order, of the items that are not among the up-to-3 seed items
\* and whose preference score is above the category's average rating,
\* whatever their own rating.
C23_PreferenceCandidatesExcludeSeedsOnly ==
    Generated =>
        \A type \in {"wine", "sake"} :
            LET items == ItemsOf(type)
            IN  FirstTwoOf(items,
                           {i \in 1..Len(items) :
                                ~IsSeed(items, i) /\ AboveAverage(type, items, i)},
                           PreferenceCandidates(type))

\* C23 as amended: the preference-based candidates of a category are the
\* first 2, in list order, of the items rated below 4 (no high-rated item is
\* eligible, seed or not) whose preference score is above the category's
\* average rating.
C23_PreferenceCandidatesAreLowRated ==
    Generated =>
        \A type \in {"wine", "sake"} :
            LET items == ItemsOf(type)
            IN  FirstTwoOf(items,
                           {i \in 1..Len(items) :
                                items[i].rating < 4 /\ AboveAverage(type, items, i)},
                           PreferenceCandidates(type))

\* three low-rated wines score above the average: the first two are suggested
C23_Witness ==
    /\ Generated
    /\ Len(wines) = 4
    /\ wines[1].rating >= 4
    /\ \A i \in 2..4 : wines[i].rating < 4 /\ AboveAverage("wine", wines, i)
    /\ Len(PreferenceCandidates("wine")) = 2
    /\ PreferenceCandidates("wine")[1].suggestedItem = wines[2]
    /\ PreferenceCandidates("wine")[2].suggestedItem = wines[3]

\* the seed item of a similarity-based recommendation
SeedOf(r) == ItemsOf(r.type)[PositionOf(ItemsOf(r.type), r.seed)]

\* the preference score of the item a recommendation suggests
SuggestedScore(r) == ScoreByPreferences(r.type, r.suggestedItem, userPreferences[1])

\* C24: the similarity field of a returned recommendation is the pairwise
\* similarity of seed and suggested item plus a tenth of the suggested item's
\* preference score when it is similarity-based, and a fifth of the suggested
\* item's preference score when it is preference-based.
C24_SimilarityField ==
    Generated =>
        \A k \in 1..Len(result) :
            LET r == result[k]
            IN  IF r.seed # ""
                THEN r.similarity
                        = RatAdd(Similarity(r.type, SeedOf(r), r.suggestedItem),
                                 RatDiv(SuggestedScore(r), RatOfInt(10)))
                ELSE r.similarity = RatDiv(SuggestedScore(r), RatOfInt(5))

\* a returned list with a similarity-based and a preference-based
\* recommendation, the seed differing from the suggested item in an attribute
C24_Witness ==
    /\ Generated
    /\ \E k \in 1..Len(result) :
          /\ result[k].seed # ""
          /\ RatLt(Similarity(result[k].type, SeedOf(result[k]), result[k].suggestedItem), One)
          /\ RatGt(Similarity(result[k].type, SeedOf(result[k]), result[k].suggestedItem), Zero)
    /\ \E k \in 1..Len(result) :
          result[k].seed = "" /\ RatGt(result[k].similarity, One)

\* the position of a returned recommendation among the candidates
GeneratedAt(r) == CHOOSE i \in 1..Len(candidates) : candidates[i].id = r.id

\* candidate i is ranked before candidate j: its similarity is greater, or
\* equal with i generated first
RankedBefore(i, j) ==
    \/ RatGt(candidates[i].similarity, candidates[j].similarity)
    \/ candidates[i].similarity = candidates[j].similarity /\ i < j

\* C25: the final sort is stable and the truncation follows it: candidates
\* are generated wine before sake and, within a category, similarity-based
\* before preference-based; the returned list orders them by decreasing
\* similarity, candidates of equal similarity in generation order, and is
\* exactly the first 5 of that ordering (all of them when there are at most 5).
C25_StableSortThenFirstFive ==
    Generated =>
        /\ \A i, j \in 1..Len(candidates) :
              i < j => /\ ~(candidates[i].type = "sake" /\ candidates[j].type = "wine")
                       /\ candidates[i].type = candidates[j].type
                            => ~(candidates[i].seed = "" /\ candidates[j].seed # "")
        /\ Len(result) = Min(5, Len(candidates))
        /\ \A k \in 1..Len(result) :
              /\ \E i \in 1..Len(candidates) : candidates[i] = result[k]
              /\ candidates[GeneratedAt(result[k])] = result[k]
        /\ \A k \in 1..(Len(result) - 1) :
              RankedBefore(GeneratedAt(result[k]), GeneratedAt(result[k + 1]))
        /\ \A i \in 1..Len(candidates) :
              (\A k \in 1..Len(result) : GeneratedAt(result[k]) # i)
                  => \A k \in 1..Len(result) : RankedBefore(GeneratedAt(result[k]), i)

\* more than five candidates, two of equal similarity generated apart, one
\* of them returned and the later one cut off
C25_Witness ==
    /\ Generated
    /\ Len(candidates) > 5
    /\ \E i, j \in 1..Len(candidates) :
          /\ i + 1 < j
          /\ candidates[i].similarity = candidates[j].similarity
          /\ \E k \in 1..Len(result) : GeneratedAt(result[k]) = i
          /\ \A k \in 1..Len(result) : GeneratedAt(result[k]) # j

\* C26: the reason of a returned recommendation contains the similarity
\* percentage if and only if the recommendation is similarity-based: the
\* fragment is appended exactly when a similarity above 0.3 is supplied, every
\* similarity-based candidate has one, and preference-based candidates are
\* formatted without a similarity.
C26_SimilarityFragmentIffSimilarityBased ==
    Generated =>
        \A k \in 1..Len(result) :
            LET r == result[k]
            IN  /\ Contains(r.reason, "ruijido") <=> r.seed # ""
                /\ r.seed # ""
                     => \E i \in 1..(Len(r.reason) - 1) :
                           /\ r.reason[i] = "ruijido"
                           /\ r.reason[i + 1] = ToString(RatRound(RatMul(
                                   Similarity(r.type, SeedOf(r), r.suggestedItem),
                                   RatOfInt(100))))

\* a returned list with a similarity-based recommendation and a
\* preference-based one whose similarity field is above 0.3
C26_Witness ==
    /\ Generated
    /\ \E k \in 1..Len(result) :
          result[k].seed # "" /\ Contains(result[k].reason, "ruijido")
    /\ \E k \in 1..Len(result) :
          /\ result[k].seed = ""
          /\ RatGt(result[k].similarity, Rat(3, 10))
          /\ ~Contains(result[k].reason, "ruijido")

\* the fragments that name a matched preference attribute
PreferenceFragments ==
    {"konomi no sanchi", "konomi no hinshu", "konomi no vintage han'i",
     "konomi no kuramoto", "konomi no shurui"}

\* C27: with every rating in 1..5, no returned recommendation carries the
\* fallback reason (a recommendation for a new discovery), and every returned
\* reason names at least one matched preference attribute.
C27_ReasonNamesMatchedPreference ==
    Generated =>
        \A k \in 1..Len(result) :
            /\ ~Contains(result[k].reason, "atarashii hakken no tame no")
            /\ \E i \in 1..Len(result[k].reason) :
                  result[k].reason[i] \in PreferenceFragments

\* a seed has a match with a zero score, which is not returned, and a match
\* with a positive score, which is returned with a reason naming its region
C27_Witness ==
    /\ Generated
    /\ \E i, j \in 1..Len(wines) :
          /\ IsSeed(wines, i) /\ IsConsidered("wine", wines, i, j)
          /\ ScoreByPreferences("wine", wines[j], userPreferences[1]) = Zero
          /\ \A k \in 1..Len(result) : result[k].suggestedItem # wines[j]
    /\ \E k \in 1..Len(result) :
          result[k].seed # "" /\ Contains(result[k].reason, "konomi no sanchi")

\* C28: one addWine or addSake call inserts at most one record into the
\* store, whatever fails during the call, a failing read-back after the
\* insert and the retries of the whole create operation included.
C28_AddInsertsAtMostOneRecord ==
    op.kind = "add" => Len(Rows(op.table)) <= Len(tableBefore) + 1

\* the call has returned or thrown
RetrySettled == retryPc \in {"returned", "thrown"}

\* the error is one the retry condition of the call accepts
Retriable(error) ==
    IF retryOptions.retryCondition = "default"
    THEN ~(error.name = "ValidationError"
           \/ error = DatabaseError("record not found with id"))
    ELSE error.message[1] \in {"timeout", "network", "temporary"}

RetryCounts ==
    /\ invocations <= retryOptions.maxAttempts
    /\ RetrySettled => invocations >= 1
    \* every failed attempt but the last was retried, after one onRetry call
    /\ \A i \in 1..(Len(retryErrors) - 1) : Retriable(retryErrors[i])
    /\ onRetryCalls = IF ~retryOptions.onRetry THEN 0
                      ELSE IF retryPc = "thrown" THEN Len(retryErrors) - 1
                      ELSE Len(retryErrors)
    /\ retryPc \in {"awaiting", "returned"} => invocations = Len(retryErrors) + 1
    \* the first success is returned without further attempts
    /\ retryPc = "returned"
         => retryOutcome = << [value |-> "created"] >> /\ Len(retryErrors) = invocations - 1
    \* the last error is thrown, at once when the condition rejects it and
    \* otherwise after maxAttempts attempts
    /\ retryPc = "thrown"
         => /\ Len(retryErrors) = invocations
            /\ retryOutcome = << retryErrors[invocations] >>
            /\ \/ ~Retriable(retryErrors[invocations])
               \/ invocations = retryOptions.maxAttempts
    \* an error the condition rejects, or the error of the last attempt, ends
    \* the call
    /\ (Len(retryErrors) > 0 /\ ~Retriable(retryErrors[Len(retryErrors)]))
         => retryPc = "thrown"
    /\ Len(retryErrors) = retryOptions.maxAttempts => retryPc = "thrown"

\* C29: executeWithRetry always terminates, having invoked the operation at
\* least once and at most maxAttempts times: it returns the result of the
\* first successful attempt without further attempts, rethrows at once an
\* error the retry condition rejects, rethrows the last error after
\* maxAttempts failed attempts, and calls onRetry once before each re-attempt.
C29_RetryTerminatesWithinMaxAttempts ==
    /\ []RetryCounts
    /\ [][RetrySettled => UNCHANGED retryVars]_vars
    /\ <>RetrySettled

\* three attempts failed with errors the condition accepts: the third error
\* is thrown after two onRetry calls
C29_Witness ==
    /\ retryPc = "thrown"
    /\ retryOptions.maxAttempts = 3 /\ retryOptions.onRetry
    /\ invocations = 3 /\ onRetryCalls = 2
    /\ Retriable(retryErrors[3])

(***************************************************************************)
(* C30: overlapping operations and the recommendations of the context      *)
(***************************************************************************)

\* every callback that was called has ended, and at least one was called
AllCompleted ==
    /\ \A t \in Tasks : tasks[t].pc \in {"idle", "done"}
    /\ \E t \in Tasks : tasks[t].pc = "done"

\* a list of recommendations without the generated ids
Suggestions(recs) == [k \in 1..Len(recs) |-> [recs[k] EXCEPT !.id = ""]]

====
